---------------------------- MODULE Spec2Model ----------------------------
(***************************************************************************)
(* A model of the file catalog (mkdocs/structure/files.py), the navigation *)
(* builder (mkdocs/structure/nav.py) and the relative-URL resolver         *)
(* (mkdocs/utils/__init__.py).                                             *)
(*                                                                         *)
(* Python strings are modelled as sequences of one-character strings, so   *)
(* that the path and URL conversions are computed the way the code         *)
(* computes them.  Python's None is modelled by 0 for object references    *)
(* and by NoneStr for an optional string.                                  *)
(***************************************************************************)
EXTENDS Integers, Sequences, FiniteSets, TLC

VARIABLES
    \* ---- File.__init__ (files.py 176-183) ----
    fpc,          \* position inside File.__init__
    fpath,        \* argument `path`
    fdirurls,     \* argument `use_directory_urls`
    file,         \* the File object under construction
    \* ---- get_relative_url (utils/__init__.py 240-265) ----
    rurl,         \* argument `url`
    rother,       \* argument `other`
    rresult,      \* the value returned, NoneStr before the call
    \* ---- get_navigation (nav.py 145-189) ----
    pc,           \* position inside get_navigation
    files,        \* Files._files: the File objects, in catalog order
    nav_config,   \* config['nav']
    nodes,        \* the heap of Page / Section / Link objects, by identity
    items,        \* local `items`, then Navigation.items
    pages,        \* local `pages`, then Navigation.pages
    todo,         \* assignments `child.parent = item` still to be executed
    \* ---- get_files (files.py 270-300) ----
    wpc,          \* position inside get_files
    docs,         \* the files below config['docs_dir'], as paths relative to it
    walk,         \* the directories os.walk has still to yield, next one first
    \* ---- _filter_paths (files.py 314-325) ----
    fargs,        \* the arguments basename, path, is_dir, exclude of a call
    fresult,      \* the value returned, in a list that is empty before the call
    \* ---- Files (files.py 23-120) ----
    _files,       \* local `files` of get_files, then Files._files
    _src_uris,    \* Files._src_uris: the dictionary by src_uri in a list, the empty list for None
    found,        \* the last call of get_file_from_path: its argument and the File returned
    \* ---- File.copy_file (files.py 233-247) and utils.copy_file (utils/__init__.py 135-145) ----
    record,       \* the File whose copy_file is called
    disk,         \* the file system: what is found at each path
    copy_log,     \* the last call of copy_file: its argument `dirty` and the message it logged
    \* ---- exceptions ----
    raised        \* the name of the exception the last call let out, NoError when it returned

fileVars == <<fpc, fpath, fdirurls, file>>
relVars == <<rurl, rother, rresult>>
navVars == <<pc, files, nav_config, nodes, items, pages, todo>>
walkVars == <<wpc, docs, walk, fargs, fresult>>
catVars == <<_files, _src_uris, found>>
copyVars == <<record, disk, copy_log>>
vars == <<fpc, fpath, fdirurls, file, rurl, rother, rresult,
          pc, files, nav_config, nodes, items, pages, todo,
          wpc, docs, walk, fargs, fresult, _files, _src_uris, found,
          record, disk, copy_log, raised>>

(***************************************************************************)
(* Bounds of the model.                                                    *)
(***************************************************************************)
MaxDirs == 1        \* directory segments in front of a file name
MaxSegs == 2        \* segments of a url given to get_relative_url
MaxNodes == 4       \* entries (leaves and sections) of a nav configuration
MaxTree == 3        \* files below the docs_dir that get_files walks
MaxFiles == 3       \* File objects in a Files collection that is appended to

(***************************************************************************)
(* Python str / posixpath / pathlib / urllib primitives.                   *)
(***************************************************************************)
NoneStr == <<"None">>

\* no exception
NoError == ""

\* str.startswith / str.endswith
StartsWith(s, p) == Len(s) >= Len(p) /\ SubSeq(s, 1, Len(p)) = p

EndsWith(s, p) == Len(s) >= Len(p) /\ SubSeq(s, Len(s) - Len(p) + 1, Len(s)) = p

\* s.rfind(c) + 1: the 1-based index of the last c in s, 0 when there is none
RFind(s, c) ==
    IF \E i \in 1..Len(s) : s[i] = c
    THEN CHOOSE i \in 1..Len(s) : s[i] = c /\ \A j \in (i+1)..Len(s) : s[j] # c
    ELSE 0

\* s.find(c) + 1
Find(s, c) ==
    IF \E i \in 1..Len(s) : s[i] = c
    THEN CHOOSE i \in 1..Len(s) : s[i] = c /\ \A j \in 1..(i-1) : s[j] # c
    ELSE 0

\* s.split(c)
RECURSIVE Split(_, _)
Split(s, c) ==
    LET i == Find(s, c)
    IN  IF i = 0 THEN <<s>>
        ELSE <<SubSeq(s, 1, i - 1)>> \o Split(SubSeq(s, i + 1, Len(s)), c)

\* c.join(parts)
RECURSIVE JoinWith(_, _)
JoinWith(parts, c) ==
    IF parts = <<>> THEN <<>>
    ELSE IF Len(parts) = 1 THEN parts[1]
    ELSE parts[1] \o <<c>> \o JoinWith(Tail(parts), c)

\* s.rstrip(c)
RECURSIVE RStrip(_, _)
RStrip(s, c) ==
    IF s # <<>> /\ s[Len(s)] = c THEN RStrip(SubSeq(s, 1, Len(s) - 1), c) ELSE s

AllSlashes(s) == \A i \in 1..Len(s) : s[i] = "/"

\* posixpath.split(p) -> (head, tail)
PosixSplit(p) ==
    LET i == RFind(p, "/")
        head == SubSeq(p, 1, i)
        tail == SubSeq(p, i + 1, Len(p))
    IN  <<IF head # <<>> /\ ~AllSlashes(head) THEN RStrip(head, "/") ELSE head, tail>>

\* posixpath.basename(p)
PosixBasename(p) == SubSeq(p, RFind(p, "/") + 1, Len(p))

\* posixpath.splitext(p) -> (root, ext): the extension starts at the last dot
\* of the last component, unless only dots precede it in that component
PosixSplitext(p) ==
    LET sepIndex == RFind(p, "/")
        dotIndex == RFind(p, ".")
    IN  IF dotIndex > sepIndex
           /\ \E i \in (sepIndex + 1)..(dotIndex - 1) : p[i] # "."
        THEN <<SubSeq(p, 1, dotIndex - 1), SubSeq(p, dotIndex, Len(p))>>
        ELSE <<p, <<>> >>

\* posixpath.join(a, b)
PosixJoin(a, b) ==
    IF StartsWith(b, <<"/">>) THEN b
    ELSE IF a = <<>> \/ EndsWith(a, <<"/">>) THEN a \o b
    ELSE a \o <<"/">> \o b

\* the loop of posixpath.normpath over the components
RECURSIVE NormComps(_, _, _)
NormComps(comps, new_comps, initial_slashes) ==
    IF comps = <<>> THEN new_comps
    ELSE LET comp == Head(comps)
             n == Len(new_comps)
         IN  IF comp = <<>> \/ comp = <<".">>
             THEN NormComps(Tail(comps), new_comps, initial_slashes)
             ELSE IF comp # <<".", ".">>
                     \/ (initial_slashes = 0 /\ n = 0)
                     \/ (n > 0 /\ new_comps[n] = <<".", ".">>)
             THEN NormComps(Tail(comps), Append(new_comps, comp), initial_slashes)
             ELSE IF n > 0
             THEN NormComps(Tail(comps), SubSeq(new_comps, 1, n - 1), initial_slashes)
             ELSE NormComps(Tail(comps), new_comps, initial_slashes)

\* posixpath.normpath(path)
PosixNormpath(path) ==
    IF path = <<>> THEN <<".">>
    ELSE LET initial_slashes ==
                 IF ~StartsWith(path, <<"/">>) THEN 0
                 ELSE IF StartsWith(path, <<"/", "/">>) /\ ~StartsWith(path, <<"/", "/", "/">>)
                 THEN 2 ELSE 1
             joined == JoinWith(NormComps(Split(path, "/"), <<>>, initial_slashes), "/")
             res == [i \in 1..initial_slashes |-> "/"] \o joined
         IN  IF res = <<>> THEN <<".">> ELSE res

\* the parts of PurePosixPath(path) below its root: empty and '.' components
\* are dropped, '..' is kept
PurePathParts(path) ==
    SelectSeq(Split(path, "/"), LAMBDA comp : comp # <<>> /\ comp # <<".">>)

\* PurePath(path).as_posix() on a POSIX system
AsPosix(path) ==
    LET root == IF ~StartsWith(path, <<"/">>) THEN <<>>
                ELSE IF StartsWith(path, <<"/", "/">>) /\ ~StartsWith(path, <<"/", "/", "/">>)
                THEN <<"/", "/">> ELSE <<"/">>
        res == root \o JoinWith(PurePathParts(path), "/")
    IN  IF res = <<>> THEN <<".">> ELSE res

\* urllib.parse.quote: the characters it never quotes, and '/' (its default `safe`)
QuoteSafe ==
    {"a", "b", "c", "d", "e", "f", "g", "h", "i", "j", "k", "l", "m", "n", "o", "p",
     "q", "r", "s", "t", "u", "v", "w", "x", "y", "z",
     "A", "B", "C", "D", "E", "F", "G", "H", "I", "J", "K", "L", "M", "N", "O", "P",
     "Q", "R", "S", "T", "U", "V", "W", "X", "Y", "Z",
     "0", "1", "2", "3", "4", "5", "6", "7", "8", "9",
     "_", ".", "-", "~", "/"}

\* '%XX' for the characters outside QuoteSafe that occur in the paths of this
\* model: the space (0x20), '#' (0x23) and '%' (0x25)
PercentCode(c) ==
    CASE c = " " -> <<"%", "2", "0">>
      [] c = "#" -> <<"%", "2", "3">>
      [] c = "%" -> <<"%", "2", "5">>

\* urllib.parse.quote(url)
RECURSIVE UrlQuote(_)
UrlQuote(s) ==
    IF s = <<>> THEN <<>>
    ELSE (IF Head(s) \in QuoteSafe THEN <<Head(s)>> ELSE PercentCode(Head(s)))
         \o UrlQuote(Tail(s))

(***************************************************************************)
(* File (files.py 123-267).                                                *)
(***************************************************************************)
\* utils.markdown_extensions
markdown_extensions ==
    << <<".", "m", "a", "r", "k", "d", "o", "w", "n">>,
       <<".", "m", "d", "o", "w", "n">>,
       <<".", "m", "k", "d", "n">>,
       <<".", "m", "k", "d">>,
       <<".", "m", "d">> >>

\* utils.is_markdown_file / File.is_documentation_page
is_documentation_page(src_uri) ==
    \E i \in 1..Len(markdown_extensions) : EndsWith(src_uri, markdown_extensions[i])

INDEX == <<"i", "n", "d", "e", "x">>
README == <<"R", "E", "A", "D", "M", "E">>
DOTHTML == <<".", "h", "t", "m", "l">>
INDEXHTML == INDEX \o DOTHTML

\* File._get_stem
_get_stem(src_uri) ==
    LET filename == PosixBasename(src_uri)
        stem == PosixSplitext(filename)[1]
    IN  IF stem = INDEX \/ stem = README THEN INDEX ELSE stem

\* a plausible slip in File._get_dest_path: the index exception is forgotten
Mutant_get_dest_path(src_uri, name, use_directory_urls) ==
    IF is_documentation_page(src_uri)
    THEN LET parent == PosixSplit(src_uri)[1]
         IN  IF ~use_directory_urls
             THEN PosixJoin(parent, name \o DOTHTML)
             ELSE PosixJoin(PosixJoin(parent, name), INDEXHTML)
    ELSE src_uri

\* File._get_dest_path
_get_dest_path(src_uri, name, use_directory_urls) ==
    IF is_documentation_page(src_uri)
    THEN LET parent == PosixSplit(src_uri)[1]
         IN  IF ~use_directory_urls \/ name = INDEX
             THEN PosixJoin(parent, name \o DOTHTML)
             ELSE PosixJoin(PosixJoin(parent, name), INDEXHTML)
    ELSE src_uri

\* a plausible slip in File._get_url: the root case is forgotten
Mutant_get_url(dest_uri, use_directory_urls) ==
    LET dirname == PosixSplit(dest_uri)[1]
        filename == PosixSplit(dest_uri)[2]
    IN  UrlQuote(IF use_directory_urls /\ filename = INDEXHTML
                 THEN dirname \o <<"/">>
                 ELSE dest_uri)

\* File._get_url
_get_url(dest_uri, use_directory_urls) ==
    LET dirname == PosixSplit(dest_uri)[1]
        filename == PosixSplit(dest_uri)[2]
    IN  UrlQuote(IF use_directory_urls /\ filename = INDEXHTML
                 THEN (IF dirname = <<>> THEN <<".">> ELSE dirname \o <<"/">>)
                 ELSE dest_uri)

\* a File object on which no attribute has been set yet
BlankFile ==
    [page |-> 0, src_uri |-> NoneStr, abs_src_path |-> NoneStr, name |-> NoneStr,
     dest_uri |-> NoneStr, abs_dest_path |-> NoneStr, url |-> NoneStr]

\* File.__init__, lines 177-179: page, src_path (the setter stores src_uri), abs_src_path
FileSrc(f, path, src_dir) ==
    LET src_uri == AsPosix(path)
    IN  [f EXCEPT !.page = 0,
                  !.src_uri = src_uri,
                  !.abs_src_path = PosixNormpath(PosixJoin(src_dir, PosixNormpath(src_uri)))]

\* File.__init__, line 180
FileName(f) == [f EXCEPT !.name = _get_stem(f.src_uri)]

\* File.__init__, lines 181-182
FileDest(f, dest_dir, use_directory_urls) ==
    LET dest_uri == _get_dest_path(f.src_uri, f.name, use_directory_urls)
    IN  [f EXCEPT !.dest_uri = dest_uri,
                  !.abs_dest_path = PosixNormpath(PosixJoin(dest_dir, PosixNormpath(dest_uri)))]

\* File.__init__, line 183
FileUrl(f, use_directory_urls) == [f EXCEPT !.url = _get_url(f.dest_uri, use_directory_urls)]

\* File(path, src_dir, dest_dir, use_directory_urls)
File(path, src_dir, dest_dir, use_directory_urls) ==
    FileUrl(FileDest(FileName(FileSrc(BlankFile, path, src_dir)), dest_dir, use_directory_urls),
            use_directory_urls)

\* config['docs_dir'] and config['site_dir'], and the site_dir of another build
DocsDir == <<"/", "d">>
SiteDir == <<"/", "s">>
OtherSiteDir == <<"/", "o">>

\* the directory names and file names the paths given to File are made of
DirNames == { <<"f", "o", "o">>, <<"a", " ", "b">>, <<".">> }

FileNames ==
    { INDEX \o <<".", "m", "d">>,
      README \o <<".", "m", "d">>,
      <<"b", "a", "r", ".", "m", "d">>,
      <<"a", " ", "b", ".", "m", "d">>,
      <<"b", "a", "r", ".", "m", "k", "d">>,
      INDEX \o <<".", "e", "n", ".", "m", "d">>,
      <<"r", "e", "a", "d", "m", "e", ".", "m", "d">>,
      <<"i", "m", "g", ".", "p", "n", "g">>,
      <<"a", " ", "b", ".", "j", "s">>,
      INDEXHTML,
      <<"b", "a", "r", ".", "h", "t", "m", "l">> }

RECURSIVE SeqsUpTo(_, _)
\* the sequences over S of length at most n
SeqsUpTo(S, n) ==
    IF n = 0 THEN { <<>> }
    ELSE LET shorter == SeqsUpTo(S, n - 1)
         IN  shorter \cup { Append(q, x) : q \in { r \in shorter : Len(r) = n - 1 }, x \in S }

FilePaths ==
    { JoinWith(dirs \o <<name>>, "/") : dirs \in SeqsUpTo(DirNames, MaxDirs), name \in FileNames }

FileIdle ==
    /\ fpc = "idle" /\ fpath = <<>> /\ fdirurls = FALSE /\ file = BlankFile

FSetSrcPath ==
    /\ fpc = "src_path"
    /\ file' = FileSrc(file, fpath, DocsDir)
    /\ fpc' = "name"
    /\ UNCHANGED <<fpath, fdirurls, relVars, navVars, walkVars, catVars, copyVars, raised>>

FSetName ==
    /\ fpc = "name"
    /\ file' = FileName(file)
    /\ fpc' = "dest"
    /\ UNCHANGED <<fpath, fdirurls, relVars, navVars, walkVars, catVars, copyVars, raised>>

FSetDest ==
    /\ fpc = "dest"
    /\ file' = FileDest(file, SiteDir, fdirurls)
    /\ fpc' = "url"
    /\ UNCHANGED <<fpath, fdirurls, relVars, navVars, walkVars, catVars, copyVars, raised>>

FSetUrl ==
    /\ fpc = "url"
    /\ file' = FileUrl(file, fdirurls)
    /\ fpc' = "done"
    /\ UNCHANGED <<fpath, fdirurls, relVars, navVars, walkVars, catVars, copyVars, raised>>

(***************************************************************************)
(* get_relative_url (utils/__init__.py 232-265).                           *)
(***************************************************************************)
\* utils._norm_parts
_norm_parts(path) ==
    LET rooted == IF ~StartsWith(path, <<"/">>) THEN <<"/">> \o path ELSE path
        normed == Tail(PosixNormpath(rooted))
    IN  IF normed # <<>> THEN Split(normed, "/") ELSE <<>>

\* a plausible slip in the loop that counts `common`: `continue` for `break`
RECURSIVE Mutant_CommonLoop(_, _, _)
Mutant_CommonLoop(other_parts, dest_parts, common) ==
    IF other_parts = <<>> \/ dest_parts = <<>> THEN common
    ELSE IF Head(other_parts) # Head(dest_parts)
    THEN Mutant_CommonLoop(Tail(other_parts), Tail(dest_parts), common)
    ELSE Mutant_CommonLoop(Tail(other_parts), Tail(dest_parts), common + 1)

\* the loop `for a, b in zip(other_parts, dest_parts)` that counts `common`
RECURSIVE CommonLoop(_, _, _)
CommonLoop(other_parts, dest_parts, common) ==
    IF other_parts = <<>> \/ dest_parts = <<>> THEN common
    ELSE IF Head(other_parts) # Head(dest_parts) THEN common
    ELSE CommonLoop(Tail(other_parts), Tail(dest_parts), common + 1)

DOTDOT == <<".", ".">>

\* a plausible slip in get_relative_url: the dots are counted from dest_parts
Mutant_get_relative_url(url, other) ==
    LET basename == SubSeq(other, RFind(other, "/") + 1, Len(other))
        dirname == SubSeq(other, 1, RFind(other, "/") - 1)
        other2 == IF \E i \in 1..Len(basename) : basename[i] = "." THEN dirname ELSE other
        other_parts == _norm_parts(other2)
        dest_parts == _norm_parts(url)
        common == CommonLoop(other_parts, dest_parts, 0)
        rel_parts == [i \in 1..(Len(dest_parts) - common) |-> DOTDOT]
                     \o SubSeq(dest_parts, common + 1, Len(dest_parts))
        joined == JoinWith(rel_parts, "/")
        relurl == IF joined = <<>> THEN <<".">> ELSE joined
    IN  IF EndsWith(url, <<"/">>) THEN relurl \o <<"/">> ELSE relurl

\* a plausible slip in get_relative_url: the file name is not removed from `other`
Mutant_get_relative_url_keeps_file(url, other) ==
    LET other_parts == _norm_parts(other)
        dest_parts == _norm_parts(url)
        common == CommonLoop(other_parts, dest_parts, 0)
        rel_parts == [i \in 1..(Len(other_parts) - common) |-> DOTDOT]
                     \o SubSeq(dest_parts, common + 1, Len(dest_parts))
        joined == JoinWith(rel_parts, "/")
        relurl == IF joined = <<>> THEN <<".">> ELSE joined
    IN  IF EndsWith(url, <<"/">>) THEN relurl \o <<"/">> ELSE relurl

\* utils.get_relative_url
get_relative_url(url, other) ==
    LET basename == SubSeq(other, RFind(other, "/") + 1, Len(other))
        dirname == SubSeq(other, 1, RFind(other, "/") - 1)
        other2 == IF \E i \in 1..Len(basename) : basename[i] = "." THEN dirname ELSE other
        other_parts == _norm_parts(other2)
        dest_parts == _norm_parts(url)
        common == CommonLoop(other_parts, dest_parts, 0)
        rel_parts == [i \in 1..(Len(other_parts) - common) |-> DOTDOT]
                     \o SubSeq(dest_parts, common + 1, Len(dest_parts))
        joined == JoinWith(rel_parts, "/")
        relurl == IF joined = <<>> THEN <<".">> ELSE joined
    IN  IF EndsWith(url, <<"/">>) THEN relurl \o <<"/">> ELSE relurl

\* the path segments the urls given to get_relative_url are made of
RelSegs == { <<"a">>, <<"a", ".", "b">>, <<".">>, DOTDOT }

\* slash-separated paths of at most MaxSegs segments, with or without a leading
\* slash and a trailing slash.  File.url and the paths normalize_url passes on are
\* of this form; a network-path reference ('//host/...') is an actual URL, which
\* get_relative_url does not support (docstring, line 246)
RelUrls ==
    { (IF lead THEN <<"/">> ELSE <<>>) \o JoinWith(segs, "/")
         \o (IF trail /\ segs # <<>> THEN <<"/">> ELSE <<>>) :
      segs \in SeqsUpTo(RelSegs, MaxSegs), lead \in BOOLEAN, trail \in BOOLEAN }

RelIdle == rurl = <<>> /\ rother = <<>> /\ rresult = NoneStr

\* the call get_relative_url(rurl, rother)
RelCall ==
    /\ rresult = NoneStr
    /\ rresult' = get_relative_url(rurl, rother)
    /\ UNCHANGED <<rurl, rother, fileVars, navVars, walkVars, catVars, copyVars, raised>>

(***************************************************************************)
(* Files (files.py 23-120): the part the navigation builder uses.          *)
(***************************************************************************)
\* Files.src_uris and Files.get_file_from_path: the index (into _files) of the
\* File the dictionary {file.src_uri: file for file in self._files} holds under
\* PurePath(path).as_posix(), a later file replacing an earlier one with the
\* same key; 0 for None
get_file_from_path(fs, path) ==
    LET key == AsPosix(path)
        hits == { i \in 1..Len(fs) : fs[i].src_uri = key }
    IN  IF hits = {} THEN 0 ELSE CHOOSE i \in hits : \A j \in hits : j <= i

\* Files.documentation_pages: the indexes of the Markdown files, in order
documentation_pages(fs) ==
    SelectSeq([i \in 1..Len(fs) |-> i], LAMBDA i : is_documentation_page(fs[i].src_uri))

(***************************************************************************)
(* Values of the nav configuration: str, tuple of two elements, dict (its  *)
(* items in order), list, None, int, and tuple of another length.          *)
(***************************************************************************)
PStr(s) == [t |-> "str", s |-> s]
PTuple(a, b) == [t |-> "tuple", a |-> a, b |-> b]
PDict(kv) == [t |-> "dict", kv |-> kv]
PList(xs) == [t |-> "list", xs |-> xs]
PNone == [t |-> "none"]
PInt(n) == [t |-> "int", n |-> n]
PTupleOf(xs) == [t |-> "ntuple", xs |-> xs]

\* the truth value Python gives a configuration value
Truthy(data) ==
    CASE data.t = "none"  -> FALSE
      [] data.t = "str"   -> data.s # <<>>
      [] data.t = "dict"  -> data.kv # <<>>
      [] data.t = "list"  -> data.xs # <<>>
      [] data.t = "tuple" -> TRUE
      [] data.t = "int"   -> data.n # 0
      [] data.t = "ntuple" -> data.xs # <<>>

(***************************************************************************)
(* nest_paths (utils/__init__.py 380-416).                                 *)
(***************************************************************************)
LowerCase == <<"a", "b", "c", "d", "e", "f", "g", "h", "i", "j", "k", "l", "m",
               "n", "o", "p", "q", "r", "s", "t", "u", "v", "w", "x", "y", "z">>
UpperCase == <<"A", "B", "C", "D", "E", "F", "G", "H", "I", "J", "K", "L", "M",
               "N", "O", "P", "Q", "R", "S", "T", "U", "V", "W", "X", "Y", "Z">>

\* str.lower and str.upper on one character
Lower(c) == IF \E i \in 1..26 : UpperCase[i] = c
            THEN LowerCase[CHOOSE i \in 1..26 : UpperCase[i] = c] ELSE c
Upper(c) == IF \E i \in 1..26 : LowerCase[i] = c
            THEN UpperCase[CHOOSE i \in 1..26 : LowerCase[i] = c] ELSE c

\* utils.dirname_to_title
dirname_to_title(dirname) ==
    LET title == [i \in 1..Len(dirname) |->
                     IF dirname[i] = "-" \/ dirname[i] = "_" THEN " " ELSE dirname[i]]
    IN  IF [i \in 1..Len(title) |-> Lower(title[i])] = title
        THEN [i \in 1..Len(title) |-> IF i = 1 THEN Upper(title[i]) ELSE Lower(title[i])]
        ELSE title

\* find_or_create_node followed by the rest of the loop body of nest_paths:
\* `path` is appended to the branch reached from `branch` through `parts`
RECURSIVE NestInsert(_, _, _)
NestInsert(branch, parts, path) ==
    IF parts = <<>> THEN Append(branch, PStr(path))
    ELSE LET key == dirname_to_title(Head(parts))
             hits == { i \in 1..Len(branch) :
                          /\ branch[i].t = "dict"
                          /\ \E j \in 1..Len(branch[i].kv) : branch[i].kv[j][1] = key }
         IN  IF hits # {}
             THEN LET i == CHOOSE i \in hits : \A h \in hits : i <= h
                      j == CHOOSE j \in 1..Len(branch[i].kv) : branch[i].kv[j][1] = key
                      sub == NestInsert(branch[i].kv[j][2].xs, Tail(parts), path)
                  IN  [branch EXCEPT ![i] = PDict([branch[i].kv EXCEPT ![j] = <<key, PList(sub)>>])]
             ELSE Append(branch, PDict(<< <<key, PList(NestInsert(<<>>, Tail(parts), path))>> >>))

RECURSIVE NestLoop(_, _)
NestLoop(paths, nested) ==
    IF paths = <<>> THEN nested
    ELSE LET allparts == PurePathParts(Head(paths))
             parts == SubSeq(allparts, 1, Len(allparts) - 1)
         IN  NestLoop(Tail(paths), NestInsert(nested, parts, Head(paths)))

\* utils.nest_paths
nest_paths(paths) == PList(NestLoop(paths, <<>>))

(***************************************************************************)
(* Navigation objects (nav.py 42-142, and the external Page).              *)
(***************************************************************************)
\* Section.__init__
NewSection(title, children) ==
    [kind |-> "Section", title |-> title, children |-> children, parent |-> 0,
     active |-> FALSE, file |-> 0, url |-> NoneStr, previous_page |-> 0, next_page |-> 0]

\* Link.__init__
NewLink(title, url) ==
    [kind |-> "Link", title |-> title, children |-> <<>>, parent |-> 0,
     active |-> FALSE, file |-> 0, url |-> url, previous_page |-> 0, next_page |-> 0]

\* Page(title, file, config) of mkdocs.structure.pages: a Page that refers to
\* its File, has no parent, no neighbours and no children
NewPage(title, f) ==
    [kind |-> "Page", title |-> title, children |-> <<>>, parent |-> 0,
     active |-> FALSE, file |-> f, url |-> NoneStr, previous_page |-> 0, next_page |-> 0]

\* the effect of Page(title, file, config) on the heap and on the catalog: the
\* new Page is allocated and assigns itself to file.page
PageInit(st, title, f) ==
    LET id == Len(st.nodes) + 1
    IN  [nodes |-> Append(st.nodes, NewPage(title, f)),
         files |-> [st.files EXCEPT ![f].page = id]]

(***************************************************************************)
(* _data_to_navigation (nav.py 192-211).  The state st = [nodes, files] is *)
(* threaded through; the result carries the new state, the objects         *)
(* returned (ids) and whether a single object or a list was returned.      *)
(***************************************************************************)
RECURSIVE _data_to_navigation(_, _)
RECURSIVE DictLoop(_, _, _)
RECURSIVE ListLoop(_, _, _)

\* the exception lines 207-208 raise for a leaf: `title, path = data` cannot
\* unpack a tuple that has not two elements (ValueError), and PurePath(path),
\* in get_file_from_path, accepts no path that is an int or None (TypeError)
LeafError(data) ==
    CASE data.t = "ntuple" -> "ValueError"
      [] data.t \in {"int", "none"} -> "TypeError"
      [] OTHER -> NoError

\* an exception leaves _data_to_navigation: the objects made so far stay as
\* they are, and nothing is returned
Raise(st, err) ==
    [nodes |-> st.nodes, files |-> st.files, ids |-> <<>>, single |-> FALSE, err |-> err]

\* a plausible slip in lines 207-211: the pair is unpacked as `path, title = data`
Mutant_Leaf(data, st) ==
    LET title == IF data.t = "tuple" THEN data.b ELSE NoneStr
        path == IF data.t = "tuple" THEN data.a ELSE data.s
        f == get_file_from_path(st.files, path)
    IN  IF LeafError(data) # NoError THEN Raise(st, LeafError(data))
        ELSE IF f # 0
        THEN LET st2 == PageInit(st, title, f)
             IN  [nodes |-> st2.nodes, files |-> st2.files,
                  ids |-> <<Len(st2.nodes)>>, single |-> TRUE, err |-> NoError]
        ELSE [nodes |-> Append(st.nodes, NewLink(title, path)), files |-> st.files,
              ids |-> <<Len(st.nodes) + 1>>, single |-> TRUE, err |-> NoError]

\* lines 207-211
Leaf(data, st) ==
    LET title == IF data.t = "tuple" THEN data.a ELSE NoneStr
        path == IF data.t = "tuple" THEN data.b ELSE data.s
        f == get_file_from_path(st.files, path)
    IN  IF LeafError(data) # NoError THEN Raise(st, LeafError(data))
        ELSE IF f # 0
        THEN LET st2 == PageInit(st, title, f)
             IN  [nodes |-> st2.nodes, files |-> st2.files,
                  ids |-> <<Len(st2.nodes)>>, single |-> TRUE, err |-> NoError]
        ELSE [nodes |-> Append(st.nodes, NewLink(title, path)), files |-> st.files,
              ids |-> <<Len(st.nodes) + 1>>, single |-> TRUE, err |-> NoError]

\* lines 194-199
DictLoop(kv, st, acc) ==
    IF kv = <<>>
    THEN [nodes |-> st.nodes, files |-> st.files, ids |-> acc, single |-> FALSE, err |-> NoError]
    ELSE LET key == Head(kv)[1]
             value == Head(kv)[2]
         IN  IF value.t = "str"
             THEN LET r == _data_to_navigation(PTuple(key, value.s), st)
                  IN  IF r.err # NoError THEN Raise(r, r.err)
                      ELSE DictLoop(Tail(kv), [nodes |-> r.nodes, files |-> r.files], acc \o r.ids)
             ELSE LET r == _data_to_navigation(value, st)
                      nodes2 == Append(r.nodes, NewSection(key, r.ids))
                  IN  IF r.err # NoError THEN Raise(r, r.err)
                      ELSE DictLoop(Tail(kv), [nodes |-> nodes2, files |-> r.files],
                                    Append(acc, Len(nodes2)))

\* lines 201-206.  An item that is a str, a tuple or a dict of one key gives one
\* object; an item converted to a list (a list, a dict of several keys) would be
\* nested as a list, and no such item occurs in NavConfigs
ListLoop(xs, st, acc) ==
    IF xs = <<>>
    THEN [nodes |-> st.nodes, files |-> st.files, ids |-> acc, single |-> FALSE, err |-> NoError]
    ELSE LET item == Head(xs)
             r == _data_to_navigation(item, st)
         IN  IF r.err # NoError THEN Raise(r, r.err)
             ELSE IF item.t = "dict" /\ Len(item.kv) = 1
             THEN ListLoop(Tail(xs), [nodes |-> r.nodes, files |-> r.files],
                           Append(acc, r.ids[1]))
             ELSE ListLoop(Tail(xs), [nodes |-> r.nodes, files |-> r.files], acc \o r.ids)

_data_to_navigation(data, st) ==
    IF data.t = "dict" THEN DictLoop(data.kv, st, <<>>)
    ELSE IF data.t = "list" THEN ListLoop(data.xs, st, <<>>)
    ELSE Leaf(data, st)

(***************************************************************************)
(* The helpers of get_navigation (nav.py 217-239) and Section.active.      *)
(***************************************************************************)
\* a plausible slip in _get_by_type: the descent into item.children is indented
\* under `if isinstance(item, T)`
RECURSIVE Mutant_get_by_type(_, _, _)
Mutant_get_by_type(ns, nav, T) ==
    IF nav = <<>> THEN <<>>
    ELSE LET item == Head(nav)
         IN  (IF ns[item].kind = T
              THEN <<item>> \o (IF ns[item].children # <<>>
                                THEN Mutant_get_by_type(ns, ns[item].children, T) ELSE <<>>)
              ELSE <<>>)
             \o Mutant_get_by_type(ns, Tail(nav), T)

\* _get_by_type(nav, T)
RECURSIVE _get_by_type(_, _, _)
_get_by_type(ns, nav, T) ==
    IF nav = <<>> THEN <<>>
    ELSE LET item == Head(nav)
         IN  (IF ns[item].kind = T THEN <<item>> ELSE <<>>)
             \o (IF ns[item].children # <<>> THEN _get_by_type(ns, ns[item].children, T) ELSE <<>>)
             \o _get_by_type(ns, Tail(nav), T)

\* the loop of _add_previous_and_next_links over zip(bookended[:-2], pages, bookended[2:])
RECURSIVE PrevNextLoop(_, _, _, _)
PrevNextLoop(ns, ps, bookended, i) ==
    IF i > Len(ps) THEN ns
    ELSE PrevNextLoop([ns EXCEPT ![ps[i]].previous_page = bookended[i],
                                 ![ps[i]].next_page = bookended[i + 2]],
                      ps, bookended, i + 1)

\* a plausible slip in _add_previous_and_next_links: bookended = [None, None, *pages]
Mutant_add_previous_and_next_links(ns, ps) ==
    PrevNextLoop(ns, ps, <<0, 0>> \o ps, 1)

\* _add_previous_and_next_links(pages)
_add_previous_and_next_links(ns, ps) ==
    PrevNextLoop(ns, ps, <<0>> \o ps \o <<0>>, 1)

\* a plausible slip in _add_parent_links: the recursion passes the item's own
\* level again, so that a grandchild is given the top-level section as parent
RECURSIVE Mutant_add_parent_links(_, _)
Mutant_add_parent_links(ns, nav) ==
    IF nav = <<>> THEN <<>>
    ELSE LET item == Head(nav)
             children == ns[item].children
             grand == _get_by_type(ns, children, "Section")
         IN  (IF ns[item].kind = "Section"
              THEN [i \in 1..Len(children) |-> <<children[i], item>>]
                   \o [i \in 1..Len(grand) |-> <<grand[i], item>>]
              ELSE <<>>)
             \o Mutant_add_parent_links(ns, Tail(nav))

\* _add_parent_links(nav): the assignments `child.parent = item` it executes,
\* as <<child, item>>, in the order it executes them
RECURSIVE _add_parent_links(_, _)
_add_parent_links(ns, nav) ==
    IF nav = <<>> THEN <<>>
    ELSE LET item == Head(nav)
             children == ns[item].children
         IN  (IF ns[item].kind = "Section"
              THEN [i \in 1..Len(children) |-> <<children[i], item>>]
                   \o _add_parent_links(ns, children)
              ELSE <<>>)
             \o _add_parent_links(ns, Tail(nav))

\* a plausible slip in the setter of Section.active: the cascade is dropped
Mutant_active_setter(ns, s, value) == [ns EXCEPT ![s].active = value]

\* the setter of Section.active
RECURSIVE active_setter(_, _, _)
active_setter(ns, s, value) ==
    LET ns2 == [ns EXCEPT ![s].active = value]
    IN  IF ns[s].parent # 0 THEN active_setter(ns2, ns[s].parent, value) ELSE ns2

\* a plausible slip in get_navigation: the first missing file is skipped
Mutant_missing_from_config(fs) ==
    LET missing == SelectSeq(documentation_pages(fs), LAMBDA i : fs[i].page = 0)
    IN  IF missing = <<>> THEN <<>> ELSE Tail(missing)

\* get_navigation, line 159
missing_from_config(fs) ==
    SelectSeq(documentation_pages(fs), LAMBDA i : fs[i].page = 0)

\* get_navigation, lines 170-171: a Page is created for each missing file
RECURSIVE MissingLoop(_, _)
MissingLoop(missing, st) ==
    IF missing = <<>> THEN st
    ELSE MissingLoop(Tail(missing), PageInit(st, NoneStr, Head(missing)))

\* a variant of lines 159-171 that also appends the new Pages to `pages` and
\* links them into the previous/next chain
Mutant_create_missing_chained(ns, fs, its, ps) ==
    LET st == MissingLoop(missing_from_config(fs), [nodes |-> ns, files |-> fs])
        ps2 == ps \o [i \in 1..(Len(st.nodes) - Len(ns)) |-> Len(ns) + i]
    IN  [nodes |-> _add_previous_and_next_links(st.nodes, ps2), files |-> st.files,
         items |-> its, pages |-> ps2]

\* a variant of lines 159-171 that also appends the new Pages to `items`
Mutant_create_missing_in_tree(ns, fs, its, ps) ==
    LET st == MissingLoop(missing_from_config(fs), [nodes |-> ns, files |-> fs])
    IN  [nodes |-> st.nodes, files |-> st.files,
         items |-> its \o [i \in 1..(Len(st.nodes) - Len(ns)) |-> Len(ns) + i], pages |-> ps]

\* get_navigation, lines 159-171, on its locals: the Pages are created and
\* neither `items` nor `pages` is touched
create_missing(ns, fs, its, ps) ==
    LET st == MissingLoop(missing_from_config(fs), [nodes |-> ns, files |-> fs])
    IN  [nodes |-> st.nodes, files |-> st.files, items |-> its, pages |-> ps]

(***************************************************************************)
(* The inputs of get_navigation: the catalog and config['nav'].            *)
(***************************************************************************)
A_MD == <<"a", ".", "m", "d">>
C_MD == <<"c", ".", "m", "d">>
D_B_MD == <<"d", "/", "b", ".", "m", "d">>
D_C_MD == <<"d", "/", "c", ".", "m", "d">>
EF_G_MD == <<"e", "_", "f", "/", "g", ".", "m", "d">>
EF_GHI_J_MD == <<"e", "_", "f", "/", "g", "H", "-", "i", "/", "j", ".", "m", "d">>
IMG_PNG == <<"i", "m", "g", ".", "p", "n", "g">>
X_URL == <<"x">>
TitleS == <<"S">>
TitleT == <<"T">>

\* the source paths of the Files of the catalogs: in the order get_files finds
\* them, and in the order calls of Files.remove and Files.append leave them in,
\* which may hold one src_uri twice
CatalogPaths ==
    { <<>>,
      <<A_MD>>,
      <<A_MD, C_MD, IMG_PNG, D_B_MD>>,
      <<A_MD, D_B_MD, D_C_MD, EF_G_MD>>,
      <<D_B_MD, A_MD, EF_GHI_J_MD, D_C_MD>>,
      <<A_MD, D_B_MD, A_MD>> }

\* the File objects of a catalog, made as get_files makes them (files.py 296-300)
Catalog(paths) == [i \in 1..Len(paths) |-> File(paths[i], DocsDir, SiteDir, TRUE)]

\* the leaves of a nav list: a bare path, a titled path, a path of no file
NavLeaves ==
    { PStr(A_MD), PDict(<< <<TitleT, PStr(D_B_MD)>> >>), PStr(X_URL) }

\* the number of entries (leaves and sections) of a configuration value
RECURSIVE NavSize(_)
RECURSIVE NavSizeSum(_)
NavSize(data) ==
    IF data.t = "dict" /\ Len(data.kv) = 1 /\ data.kv[1][2].t = "list"
    THEN 1 + NavSizeSum(data.kv[1][2].xs)
    ELSE 1

NavSizeSum(xs) == IF xs = <<>> THEN 0 ELSE NavSize(Head(xs)) + NavSizeSum(Tail(xs))

\* NavLists[n]: the nav lists of at most n entries, an entry being a leaf or a
\* section `{title: [entries]}`
NavLists[n \in 0..(MaxNodes + 1)] ==
    IF n = 0 THEN { <<>> }
    ELSE LET entries == NavLeaves \cup { PDict(<< <<TitleS, PList(xs)>> >>) : xs \in NavLists[n - 1] }
         IN  { <<>> } \cup
             UNION { { <<e>> \o rest : rest \in NavLists[n - NavSize(e)] } : e \in entries }

\* values of config['nav'] with a leaf that is no str and no pair: an int, None
\* or a tuple of another length, in a list, as the value of a key, below a
\* section, after a leaf that has a File, and as the whole configuration
MalformedNavConfigs ==
    { PInt(5), PInt(0), PTupleOf(<<>>), PTupleOf(<<A_MD>>), PTupleOf(<<TitleT, A_MD, X_URL>>),
      PList(<<PStr(A_MD), PInt(5)>>),
      PList(<<PInt(0)>>),
      PList(<<PNone>>),
      PList(<<PTupleOf(<<TitleT, A_MD, X_URL>>), PStr(A_MD)>>),
      PList(<<PDict(<< <<TitleS, PList(<<PStr(D_B_MD), PTupleOf(<<A_MD>>)>>)>> >>)>>),
      PList(<<PDict(<< <<TitleS, PTupleOf(<<>>)>> >>)>>),
      PDict(<< <<TitleT, PStr(A_MD)>>, <<TitleS, PNone>> >>),
      PDict(<< <<TitleS, PInt(0)>> >>) }

\* config['nav']: absent, a list, a single path, a pair in a list, a mapping of
\* several keys, a mapping whose value is a mapping, a malformed value
NavConfigs ==
    { PList(xs) : xs \in NavLists[MaxNodes] }
    \cup MalformedNavConfigs
    \cup { PNone,
           PList(<<PTuple(TitleT, A_MD), PStr(X_URL)>>),
           PStr(A_MD),
           PDict(<< <<TitleT, PStr(A_MD)>>, <<TitleS, PList(<<PStr(D_B_MD), PStr(X_URL)>>)>> >>),
           PDict(<< <<TitleS, PDict(<< <<TitleT, PStr(D_B_MD)>>,
                                       <<TitleS, PList(<<PStr(A_MD)>>)>> >>)>> >>) }

(***************************************************************************)
(* get_navigation (nav.py 145-189), one action per phase, and the setter   *)
(* of Section.active called on the Navigation it returned.                 *)
(***************************************************************************)
NavIdle ==
    /\ pc = "idle" /\ files = <<>> /\ nav_config = PNone /\ nodes = <<>>
    /\ items = <<>> /\ pages = <<>> /\ todo = <<>>

\* lines 147-150
DataToNavigation ==
    /\ pc = "start"
    /\ LET data == IF Truthy(nav_config) THEN nav_config
                   ELSE nest_paths([i \in 1..Len(documentation_pages(files)) |->
                                       files[documentation_pages(files)[i]].src_uri])
           r == _data_to_navigation(data, [nodes |-> nodes, files |-> files])
       IN  /\ nodes' = r.nodes
           /\ files' = r.files
           /\ items' = r.ids
           /\ raised' = r.err
           /\ pc' = IF r.err # NoError THEN "raised" ELSE "pages"
    /\ UNCHANGED <<nav_config, pages, todo, fileVars, relVars, walkVars, catVars, copyVars>>

\* line 153
GetPages ==
    /\ pc = "pages"
    /\ pages' = _get_by_type(nodes, items, "Page")
    /\ pc' = "prevnext"
    /\ UNCHANGED <<files, nav_config, nodes, items, todo, fileVars, relVars, walkVars, catVars, copyVars, raised>>

\* line 156, and the entry into _add_parent_links (line 157)
AddPreviousAndNextLinks ==
    /\ pc = "prevnext"
    /\ nodes' = _add_previous_and_next_links(nodes, pages)
    /\ todo' = _add_parent_links(nodes, items)
    /\ pc' = "parents"
    /\ UNCHANGED <<files, nav_config, items, pages, fileVars, relVars, walkVars, catVars, copyVars, raised>>

\* line 231: one assignment `child.parent = item`
AddParentLink ==
    /\ pc = "parents"
    /\ todo # <<>>
    /\ nodes' = [nodes EXCEPT ![Head(todo)[1]].parent = Head(todo)[2]]
    /\ todo' = Tail(todo)
    /\ UNCHANGED <<pc, files, nav_config, items, pages, fileVars, relVars, walkVars, catVars, copyVars, raised>>

\* lines 159-171
CreateMissingPages ==
    /\ pc = "parents"
    /\ todo = <<>>
    /\ LET st == create_missing(nodes, files, items, pages)
       IN  nodes' = st.nodes /\ files' = st.files /\ items' = st.items /\ pages' = st.pages
    /\ pc' = "links"
    /\ UNCHANGED <<nav_config, todo, fileVars, relVars, walkVars, catVars, copyVars, raised>>

\* lines 173-189: the links are only logged; Navigation(items, pages) is returned
Return ==
    /\ pc = "links"
    /\ pc' = "done"
    /\ UNCHANGED <<files, nav_config, nodes, items, pages, todo, fileVars, relVars, walkVars, catVars, copyVars, raised>>

\* section.active = value, on a Section of the returned Navigation
SetActive(s, value) ==
    /\ pc = "done"
    /\ s \in DOMAIN nodes
    /\ nodes[s].kind = "Section"
    /\ nodes' = active_setter(nodes, s, value)
    /\ UNCHANGED <<pc, files, nav_config, items, pages, todo, fileVars, relVars, walkVars, catVars, copyVars, raised>>

SetSectionActive == \E s \in DOMAIN nodes, value \in BOOLEAN : SetActive(s, value)

(***************************************************************************)
(* Sorting and glob matching, as get_files uses them.                      *)
(***************************************************************************)
\* the characters of the model in code point order, which is the order
\* Python compares strings by
CodePoints ==
    <<" ", "#", "%", "*", "-", ".", "/", "0", "1", "2", "3", "4", "5", "6", "7", "8", "9",
      ":", "?", "A", "B", "C", "D", "E", "F", "G", "H", "I", "J", "K", "L", "M", "N", "O",
      "P", "Q", "R", "S", "T", "U", "V", "W", "X", "Y", "Z", "_", "a", "b", "c", "d", "e",
      "f", "g", "h", "i", "j", "k", "l", "m", "n", "o", "p", "q", "r", "s", "t", "u", "v",
      "w", "x", "y", "z">>

Ord(c) == CHOOSE i \in 1..Len(CodePoints) : CodePoints[i] = c

\* a < b for Python strings
RECURSIVE StrLess(_, _)
StrLess(a, b) ==
    IF b = <<>> THEN FALSE
    ELSE IF a = <<>> THEN TRUE
    ELSE IF Head(a) # Head(b) THEN Ord(Head(a)) < Ord(Head(b))
    ELSE StrLess(Tail(a), Tail(b))

\* the sort keys of _sort_files: the tuple (0,) or the tuple (1, f)
KeyLess(k, l) == k[1] < l[1] \/ (k[1] = 1 /\ l[1] = 1 /\ StrLess(k[2], l[2]))

\* the place of x in a sorted list: behind everything that is not greater (sorted is stable)
RECURSIVE InsertByKey(_, _)
InsertByKey(sorted, x) ==
    IF sorted = <<>> THEN <<x>>
    ELSE IF KeyLess(x.key, Head(sorted).key) THEN <<x>> \o sorted
    ELSE <<Head(sorted)>> \o InsertByKey(Tail(sorted), x)

\* sorted(xs, key=...) on a list of [key, value] records
RECURSIVE SortedByKey(_, _)
SortedByKey(xs, acc) ==
    IF xs = <<>> THEN acc ELSE SortedByKey(Tail(xs), InsertByKey(acc, Head(xs)))

\* list.sort() and sorted() on a list of strings
Sorted(names) ==
    LET keyed == [i \in 1..Len(names) |-> [key |-> <<1, names[i]>>, value |-> names[i]]]
        res == SortedByKey(keyed, <<>>)
    IN  [i \in 1..Len(res) |-> res[i].value]

\* fnmatch.fnmatch(name, pat) for patterns made of literal characters, '*' and '?'
RECURSIVE Fnmatch(_, _)
Fnmatch(name, pat) ==
    IF pat = <<>> THEN name = <<>>
    ELSE IF Head(pat) = "*"
         THEN \E k \in 0..Len(name) : Fnmatch(SubSeq(name, k + 1, Len(name)), Tail(pat))
    ELSE IF name = <<>> THEN FALSE
    ELSE (Head(pat) = "?" \/ Head(pat) = Head(name)) /\ Fnmatch(Tail(name), Tail(pat))

\* str.strip('/')
RECURSIVE LStrip(_, _)
LStrip(s, c) == IF s # <<>> /\ Head(s) = c THEN LStrip(Tail(s), c) ELSE s

Strip(s, c) == RStrip(LStrip(s, c), c)

(***************************************************************************)
(* get_files (files.py 270-325).                                           *)
(***************************************************************************)
\* files._sort_files: index.* and README.* first, in the order given; the rest by name
_sort_files(filenames) ==
    LET key(f) == IF PosixSplitext(f)[1] \in { INDEX, README } THEN <<0>> ELSE <<1, f>>
        keyed == [i \in 1..Len(filenames) |-> [key |-> key(filenames[i]), value |-> filenames[i]]]
        res == SortedByKey(keyed, <<>>)
    IN  [i \in 1..Len(res) |-> res[i].value]

\* a plausible slip in _filter_paths: every pattern is matched against the basename
RECURSIVE Mutant_filter_paths(_, _, _, _)
Mutant_filter_paths(basename, path, is_dir, exclude) ==
    IF exclude = <<>> THEN FALSE
    ELSE LET item == Head(exclude)
         IN  IF EndsWith(item, <<"/">>) /\ ~is_dir
             THEN Mutant_filter_paths(basename, path, is_dir, Tail(exclude))
             ELSE IF Fnmatch(basename, Strip(item, "/")) THEN TRUE
             ELSE Mutant_filter_paths(basename, path, is_dir, Tail(exclude))

\* files._filter_paths
RECURSIVE _filter_paths(_, _, _, _)
_filter_paths(basename, path, is_dir, exclude) ==
    IF exclude = <<>> THEN FALSE
    ELSE LET item == Head(exclude)
             match == IF StartsWith(item, <<"/">>) THEN path ELSE basename
         IN  IF EndsWith(item, <<"/">>) /\ ~is_dir
             THEN _filter_paths(basename, path, is_dir, Tail(exclude))
             ELSE IF Fnmatch(match, Strip(item, "/")) THEN TRUE
             ELSE _filter_paths(basename, path, is_dir, Tail(exclude))

\* local `exclude` of get_files
exclude == << <<".", "*">>, <<"/", "t", "e", "m", "p", "l", "a", "t", "e", "s">> >>

INDEX_MD == INDEX \o <<".", "m", "d">>
README_MD == README \o <<".", "m", "d">>

\* os.path.relpath(source_dir, config['docs_dir']) of the directory with the segments dir
relative_dir(dir) == IF dir = <<>> THEN <<".">> ELSE JoinWith(dir, "/")

\* the names os.walk finds in a directory of the tree
FileNamesIn(tree, dir) ==
    { p[Len(dir) + 1] : p \in { q \in tree : Len(q) = Len(dir) + 1 /\ SubSeq(q, 1, Len(dir)) = dir } }

DirNamesIn(tree, dir) ==
    { p[Len(dir) + 1] : p \in { q \in tree : Len(q) > Len(dir) + 1 /\ SubSeq(q, 1, Len(dir)) = dir } }

\* the orders in which the operating system may list the names of a set
Listings(S) ==
    { q \in [1..Cardinality(S) -> S] : \A i, j \in 1..Cardinality(S) : q[i] = q[j] => i = j }

\* lines 277-281: the directory names that are not excluded, in the order listed
RECURSIVE PruneLoop(_, _, _)
PruneLoop(rel, todo_names, dirnames) ==
    IF todo_names = <<>> THEN dirnames
    ELSE LET dirname == Head(todo_names)
             path == PosixNormpath(PosixJoin(rel, dirname))
         IN  IF _filter_paths(dirname, path, TRUE, exclude)
             THEN PruneLoop(rel, Tail(todo_names), SelectSeq(dirnames, LAMBDA d : d # dirname))
             ELSE PruneLoop(rel, Tail(todo_names), dirnames)

\* a plausible slip in the file loop of get_files: README.md is kept beside index.md
RECURSIVE Mutant_FileLoop(_, _, _, _)
Mutant_FileLoop(rel, todo_names, filenames, acc) ==
    IF todo_names = <<>> THEN acc
    ELSE LET filename == Head(todo_names)
             path == PosixNormpath(PosixJoin(rel, filename))
         IN  IF _filter_paths(filename, path, FALSE, exclude)
             THEN Mutant_FileLoop(rel, Tail(todo_names), filenames, acc)
             ELSE Mutant_FileLoop(rel, Tail(todo_names), filenames,
                                  Append(acc, File(path, DocsDir, SiteDir, TRUE)))

\* lines 284-298: the File objects made for the files of one directory
RECURSIVE FileLoop(_, _, _, _)
FileLoop(rel, todo_names, filenames, acc) ==
    IF todo_names = <<>> THEN acc
    ELSE LET filename == Head(todo_names)
             path == PosixNormpath(PosixJoin(rel, filename))
         IN  IF _filter_paths(filename, path, FALSE, exclude)
             THEN FileLoop(rel, Tail(todo_names), filenames, acc)
             ELSE IF filename = README_MD /\ \E i \in 1..Len(filenames) : filenames[i] = INDEX_MD
             THEN FileLoop(rel, Tail(todo_names), filenames, acc)
             ELSE FileLoop(rel, Tail(todo_names), filenames,
                           Append(acc, File(path, DocsDir, SiteDir, TRUE)))

\* a plausible slip in the loop of get_files: relative_dir is not joined to the names
Mutant_WalkStep(dir, dirnames, filenames) ==
    LET rel == relative_dir(dir)
        kept == Sorted(PruneLoop(rel, dirnames, dirnames))
    IN  [dirs |-> [i \in 1..Len(kept) |-> Append(dir, kept[i])],
         files |-> FileLoop(<<".">>, _sort_files(filenames), filenames, <<>>)]

\* one iteration of the loop over os.walk (lines 276-298), for the directory dir
\* whose names the operating system lists as dirnames and filenames
WalkStep(dir, dirnames, filenames) ==
    LET rel == relative_dir(dir)
        kept == Sorted(PruneLoop(rel, dirnames, dirnames))
    IN  [dirs |-> [i \in 1..Len(kept) |-> Append(dir, kept[i])],
         files |-> FileLoop(rel, _sort_files(filenames), filenames, <<>>)]

\* get_files with every directory listed in sorted order
RECURSIVE WalkAll(_, _, _)
WalkAll(tree, stack, acc) ==
    IF stack = <<>> THEN acc
    ELSE LET dir == Head(stack)
             listed(S) == CHOOSE q \in Listings(S) : Sorted(q) = q
             r == WalkStep(dir, listed(DirNamesIn(tree, dir)), listed(FileNamesIn(tree, dir)))
         IN  WalkAll(tree, r.dirs \o Tail(stack), acc \o r.files)

get_files(tree) == WalkAll(tree, << <<>> >>, <<>>)

\* the files a docs_dir of the model may hold, as lists of path segments
DocsUniverse ==
    { <<<<"i", "n", "d", "e", "x", ".", "m", "d">>>>,
      <<<<"R", "E", "A", "D", "M", "E", ".", "m", "d">>>>,
      <<<<"a", ".", "m", "d">>>>,
      <<<<"B", ".", "m", "d">>>>,
      <<<<"i", "n", "d", "e", "x", ".", "h", "t", "m", "l">>>>,
      <<<<".", "h", "i", "d", "d", "e", "n">>>>,
      <<<<"t", "e", "m", "p", "l", "a", "t", "e", "s">>, <<"i", "n", "d", "e", "x", ".", "m", "d">>>>,
      <<<<"t", "e", "m", "p", "l", "a", "t", "e", "s">>, <<"R", "E", "A", "D", "M", "E", ".", "m", "d">>>>,
      <<<<"x">>, <<"t", "e", "m", "p", "l", "a", "t", "e", "s">>, <<"t", ".", "m", "d">>>>,
      <<<<"x">>, <<".", "g", "i", "t">>, <<"c", ".", "m", "d">>>>,
      <<<<"x">>, <<"i", "n", "d", "e", "x", ".", "m", "d">>>>,
      <<<<"x">>, <<"R", "E", "A", "D", "M", "E", ".", "m", "d">>>>,
      <<<<"b">>, <<"c", ".", "m", "d">>>> }

\* the docs_dir trees of the model: at most MaxTree files
DocsTrees == { tree \in SUBSET DocsUniverse : Cardinality(tree) <= MaxTree }

\* the calls of _filter_paths of the model: the patterns of get_files and more
FilterPatterns ==
    { <<".", "*">>,
      <<"/", "t", "e", "m", "p", "l", "a", "t", "e", "s">>,
      <<"t", "e", "m", "p", "l", "a", "t", "e", "s", "/">>,
      <<"/", "x", "/", "*", ".", "m", "d">>,
      <<"*", ".", "m", "d">>,
      <<"/", ".", "*", "/">> }

FilterNames ==
    { <<"t", "e", "m", "p", "l", "a", "t", "e", "s">>,
      <<"x", "/", "t", "e", "m", "p", "l", "a", "t", "e", "s">>,
      <<".", "g", "i", "t">>,
      <<"x", "/", ".", "g", "i", "t">>,
      <<"a", ".", "m", "d">>,
      <<"x", "/", "a", ".", "m", "d">> }

FilterArgs ==
    { [basename |-> PosixBasename(path), path |-> path, is_dir |-> is_dir, exclude |-> ex] :
        path \in FilterNames, is_dir \in BOOLEAN,
        ex \in { <<a>> : a \in FilterPatterns } \cup { exclude, <<>> } }

NoArgs == [basename |-> <<>>, path |-> <<>>, is_dir |-> FALSE, exclude |-> <<>>]

WalkIdle ==
    /\ wpc = "idle" /\ docs = {} /\ walk = <<>> /\ fargs = NoArgs /\ fresult = <<>>

\* one iteration of `for source_dir, dirnames, filenames in os.walk(...)`
WalkDir ==
    /\ wpc = "walk"
    /\ walk # <<>>
    /\ \E dirnames \in Listings(DirNamesIn(docs, Head(walk))),
          filenames \in Listings(FileNamesIn(docs, Head(walk))) :
          LET r == WalkStep(Head(walk), dirnames, filenames)
          IN  /\ _files' = _files \o r.files
              /\ walk' = r.dirs \o Tail(walk)
    /\ UNCHANGED <<wpc, docs, fargs, fresult, _src_uris, found, fileVars, relVars, navVars, copyVars, raised>>

\* `return Files(files)` (line 300 and Files.__init__)
WalkReturn ==
    /\ wpc = "walk"
    /\ walk = <<>>
    /\ wpc' = "done"
    /\ _src_uris' = <<>>
    /\ UNCHANGED <<docs, walk, fargs, fresult, _files, found, fileVars, relVars, navVars, copyVars, raised>>

\* a call _filter_paths(basename, path, is_dir, exclude)
FilterCall ==
    /\ wpc = "filter"
    /\ fresult = <<>>
    /\ fresult' = <<_filter_paths(fargs.basename, fargs.path, fargs.is_dir, fargs.exclude)>>
    /\ UNCHANGED <<wpc, docs, walk, fargs, catVars, fileVars, relVars, navVars, copyVars, raised>>

(***************************************************************************)
(* Files (files.py 23-120): a Files object is modelled by the record of    *)
(* its attributes _files and _src_uris.                                    *)
(***************************************************************************)
\* the dictionary {file.src_uri: file for file in self._files}
FilesIndex(fs) ==
    [u \in { fs[i].src_uri : i \in 1..Len(fs) } |->
        fs[CHOOSE i \in 1..Len(fs) : fs[i].src_uri = u /\ \A j \in 1..Len(fs) : fs[j].src_uri = u => j <= i]]

\* the property Files.src_uris: the Files object after the read; its _src_uris[1] is the value
src_uris(c) == IF c._src_uris = <<>> THEN [c EXCEPT !._src_uris = <<FilesIndex(c._files)>>] ELSE c

\* a plausible slip in Files.append: the index is not invalidated
Mutant_append(c, f) == [c EXCEPT !._files = Append(c._files, f)]

\* Files.append
append(c, f) == [c EXCEPT !._src_uris = <<>>, !._files = Append(c._files, f)]

\* File.__eq__
FileEq(f, g) == f.src_uri = g.src_uri /\ f.abs_src_path = g.abs_src_path /\ f.url = g.url

\* a plausible slip: every element equal to f goes
Mutant_ListRemove(fs, f) == SelectSeq(fs, LAMBDA g : ~FileEq(g, f))

\* list.remove(f): the first element equal to f goes; without one the list stays
\* as it is (and ValueError is raised)
ListRemove(fs, f) ==
    LET hits == { i \in 1..Len(fs) : FileEq(fs[i], f) }
    IN  IF hits = {} THEN fs
        ELSE LET k == CHOOSE i \in hits : \A j \in hits : i <= j
             IN  SubSeq(fs, 1, k - 1) \o SubSeq(fs, k + 1, Len(fs))

\* Files.remove
remove(c, f) == [c EXCEPT !._src_uris = <<>>, !._files = ListRemove(c._files, f)]

\* the exception Files.remove lets out: the ValueError of list.remove
remove_error(c, f) ==
    IF \E i \in 1..Len(c._files) : FileEq(c._files[i], f) THEN NoError ELSE "ValueError"

\* Files.get_file_from_path on the Files object c: the Files object after the
\* call and the File returned, in a list that is empty for None
LookUp(c, path) ==
    LET c2 == src_uris(c)
        key == AsPosix(path)
    IN  [c |-> c2,
         file |-> IF key \in DOMAIN c2._src_uris[1] THEN <<c2._src_uris[1][key]>> ELSE <<>>]

\* str.lower
StrLower(s) == [i \in 1..Len(s) |-> Lower(s[i])]

\* the patterns of the local function `filter` of add_files_from_theme
ThemePatterns(static_templates) ==
    << <<".", "*">>,
       <<"*", "/", ".", "*">>,
       <<"*", ".", "p", "y">>,
       <<"*", ".", "p", "y", "c">>,
       <<"*", ".", "h", "t", "m", "l">>,
       <<"*", "r", "e", "a", "d", "m", "e", "*">>,
       <<"m", "k", "d", "o", "c", "s", "_", "t", "h", "e", "m", "e", ".", "y", "m", "l">>,
       <<"l", "o", "c", "a", "l", "e", "s", "/", "*">> >>
    \o [i \in 1..Len(markdown_extensions) |-> <<"*">> \o markdown_extensions[i]]
    \o static_templates

\* the local function `filter` of add_files_from_theme
filter(name, static_templates) ==
    ~\E i \in 1..Len(ThemePatterns(static_templates)) :
        Fnmatch(StrLower(name), ThemePatterns(static_templates)[i])

\* os.path.isfile(os.path.join(dir, path)) for the theme directory d
IsFile(d, path) == path \in d.paths

\* lines 114-120: the first theme directory that holds path, 0 without one
RECURSIVE FirstDir(_, _, _)
FirstDir(dirs, path, i) ==
    IF i > Len(dirs) THEN 0
    ELSE IF IsFile(dirs[i], path) THEN i
    ELSE FirstDir(dirs, path, i + 1)

\* a plausible slip in the loop of add_files_from_theme: the test
\* `path not in self.src_uris` is missing
RECURSIVE Mutant_ThemeLoop(_, _, _)
Mutant_ThemeLoop(c, names, dirs) ==
    IF names = <<>> THEN c
    ELSE LET path == AsPosix(Head(names))
             k == FirstDir(dirs, path, 1)
         IN  IF k = 0 THEN Mutant_ThemeLoop(c, Tail(names), dirs)
             ELSE Mutant_ThemeLoop(append(c, File(path, dirs[k].dir, SiteDir, TRUE)),
                                   Tail(names), dirs)

\* lines 110-120: the loop over env.list_templates(filter_func=filter)
RECURSIVE ThemeLoop(_, _, _)
ThemeLoop(c, names, dirs) ==
    IF names = <<>> THEN c
    ELSE LET path == AsPosix(Head(names))
             c2 == src_uris(c)
             k == FirstDir(dirs, path, 1)
         IN  IF path \in DOMAIN c2._src_uris[1] \/ k = 0
             THEN ThemeLoop(c2, Tail(names), dirs)
             ELSE ThemeLoop(append(c2, File(path, dirs[k].dir, SiteDir, TRUE)),
                            Tail(names), dirs)

\* the theme directories of the model
ThemeDirT == <<"/", "t">>
ThemeDirU == <<"/", "u">>

MAIN_CSS == <<"m", "a", "i", "n", ".", "c", "s", "s">>
JS_APP_JS == <<"j", "s", "/", "a", "p", "p", ".", "j", "s">>

\* the themes of the model: config['theme'].dirs with the files each directory
\* holds, config['theme'].static_templates, and the names the loader lists
Themes ==
    { [dirs |-> << [dir |-> ThemeDirT, paths |-> {<<"m", "a", "i", "n", ".", "c", "s", "s">>, <<"i", "m", "g", ".", "p", "n", "g">>}],
                   [dir |-> ThemeDirU, paths |-> {<<"m", "a", "i", "n", ".", "c", "s", "s">>, <<"b", "a", "s", "e", ".", "h", "t", "m", "l">>}] >>,
       static_templates |-> << <<"s", "i", "t", "e", "m", "a", "p", ".", "x", "m", "l">> >>,
       names |-> <<<<"b", "a", "s", "e", ".", "h", "t", "m", "l">>, <<"e", "x", "t", "r", "a", ".", "c", "s", "s">>, <<"i", "m", "g", ".", "p", "n", "g">>, <<"m", "a", "i", "n", ".", "c", "s", "s">>>>],
      [dirs |-> << [dir |-> ThemeDirT, paths |-> {}],
                   [dir |-> ThemeDirU, paths |-> {<<"R", "E", "A", "D", "M", "E", ".", "t", "x", "t">>, <<"a", ".", "m", "d">>, <<"j", "s", "/", "a", "p", "p", ".", "j", "s">>, <<"s", "i", "t", "e", "m", "a", "p", ".", "x", "m", "l">>}] >>,
       static_templates |-> << <<"s", "i", "t", "e", "m", "a", "p", ".", "x", "m", "l">> >>,
       names |-> <<<<"R", "E", "A", "D", "M", "E", ".", "t", "x", "t">>, <<"a", ".", "m", "d">>, <<"j", "s", "/", "a", "p", "p", ".", "j", "s">>, <<"s", "i", "t", "e", "m", "a", "p", ".", "x", "m", "l">>>>] }

\* env.list_templates(filter_func=filter) for each theme: the names the loader
\* lists (jinja2 lists them sorted) that the filter lets through
list_templates ==
    [theme \in Themes |-> SelectSeq(theme.names, LAMBDA n : filter(n, theme.static_templates))]

\* Files.add_files_from_theme(env, config); theme.dirs is config['theme'].dirs
add_files_from_theme(c, theme) == ThemeLoop(c, list_templates[theme], theme.dirs)

\* the File objects given to append and remove
CatFiles ==
    { File(A_MD, DocsDir, SiteDir, TRUE),
      File(A_MD, ThemeDirT, SiteDir, TRUE),
      File(IMG_PNG, DocsDir, SiteDir, TRUE),
      File(IMG_PNG, DocsDir, OtherSiteDir, TRUE) }

\* the paths given to get_file_from_path
CatKeys == {<<"a", ".", "m", "d">>, <<".", "/", "a", ".", "m", "d">>, <<"i", "m", "g", ".", "p", "n", "g">>, <<"m", "a", "i", "n", ".", "c", "s", "s">>}

\* the docs_dir trees the Files collections of the model are discovered from
CatTrees == { {}, { <<<<"a", ".", "m", "d">>>> }, { <<<<"a", ".", "m", "d">>>>, <<<<"i", "m", "g", ".", "p", "n", "g">>>> } }

NoFound == [path |-> NoneStr, file |-> <<>>]

CatIdle == _files = <<>> /\ _src_uris = <<>> /\ found = NoFound

\* the Files object of the state
TheFiles == [_files |-> _files, _src_uris |-> _src_uris]

\* files.append(f)
CatAppend ==
    /\ wpc = "done"
    /\ Len(_files) < MaxFiles
    /\ \E f \in CatFiles :
          LET c == append(TheFiles, f)
          IN  _files' = c._files /\ _src_uris' = c._src_uris
    /\ raised' = NoError
    /\ UNCHANGED <<found, walkVars, fileVars, relVars, navVars, copyVars>>

\* files.remove(f)
Remove(f) ==
    /\ wpc = "done"
    /\ LET c == remove(TheFiles, f)
       IN  _files' = c._files /\ _src_uris' = c._src_uris
    /\ raised' = remove_error(TheFiles, f)
    /\ UNCHANGED <<found, walkVars, fileVars, relVars, navVars, copyVars>>

CatRemove == \E f \in CatFiles : Remove(f)

\* files.get_file_from_path(path)
GetFileFromPath(path) ==
    /\ wpc = "done"
    /\ LET r == LookUp(TheFiles, path)
       IN  /\ _files' = r.c._files
           /\ _src_uris' = r.c._src_uris
           /\ found' = [path |-> path, file |-> r.file]
    /\ raised' = NoError
    /\ UNCHANGED <<walkVars, fileVars, relVars, navVars, copyVars>>

CatLookup == \E path \in CatKeys : GetFileFromPath(path)

\* files.add_files_from_theme(env, config)
AddFilesFromTheme(theme) ==
    /\ wpc = "done"
    /\ LET c == add_files_from_theme(TheFiles, theme)
       IN  /\ Len(c._files) <= MaxFiles
           /\ _files' = c._files
           /\ _src_uris' = c._src_uris
    /\ raised' = NoError
    /\ UNCHANGED <<found, walkVars, fileVars, relVars, navVars, copyVars>>

CatAddFilesFromTheme == \E theme \in Themes : AddFilesFromTheme(theme)

(***************************************************************************)
(* File.copy_file and File.is_modified (files.py 233-247), utils.copy_file *)
(* (utils/__init__.py 135-145).  The file system is a function from the    *)
(* paths of the model to what is found there; the directories above these  *)
(* paths exist or are made by os.makedirs(output_dir, exist_ok=True).      *)
(***************************************************************************)
MaxTime == 2        \* the latest modification time

Contents == { "x", "y" }
Times == 0..MaxTime

\* what is found at a path: nothing, a directory, a regular file
Missing == [kind |-> "missing", bytes |-> "", mtime |-> 0]
Directory == [kind |-> "dir", bytes |-> "", mtime |-> 0]
RegularFile(bytes, mtime) == [kind |-> "file", bytes |-> bytes, mtime |-> mtime]

\* os.path.isfile, os.path.isdir, os.path.getmtime
isfile(d, path) == d[path].kind = "file"
isdir(d, path) == d[path].kind = "dir"
getmtime(d, path) == d[path].mtime

\* a plausible slip in File.is_modified: `<=` for `<`
Mutant_is_modified(d, f) ==
    IF isfile(d, f.abs_dest_path)
    THEN getmtime(d, f.abs_dest_path) <= getmtime(d, f.abs_src_path)
    ELSE TRUE

\* File.is_modified
is_modified(d, f) ==
    IF isfile(d, f.abs_dest_path)
    THEN getmtime(d, f.abs_dest_path) < getmtime(d, f.abs_src_path)
    ELSE TRUE

\* shutil.copyfile(src, dst) at the time `now`: SameFileError when both are the
\* same file, else dst is written with the bytes of src
copyfile(d, src, dst, now) ==
    IF src = dst
    THEN [disk |-> d, raised |-> "SameFileError"]
    ELSE [disk |-> [d EXCEPT ![dst] = RegularFile(d[src].bytes, now)], raised |-> NoError]

\* utils.copy_file
copy_file(d, source_path, output_path, now) ==
    LET output_path2 == IF isdir(d, output_path)
                        THEN PosixJoin(output_path, PosixBasename(source_path))
                        ELSE output_path
    IN  copyfile(d, source_path, output_path2, now)

SkipMessage == "Skip copying unmodified file"
CopyMessage == "Copying media file"

\* File.copy_file: the file system after the call, the message logged and the
\* exception let out
File_copy_file(d, f, dirty, now) ==
    IF dirty /\ ~is_modified(d, f)
    THEN [disk |-> d, message |-> SkipMessage, raised |-> NoError]
    ELSE LET r == copy_file(d, f.abs_src_path, f.abs_dest_path, now)
         IN  [disk |-> r.disk, message |-> CopyMessage,
              raised |-> IF r.raised = "SameFileError" THEN NoError ELSE r.raised]

\* the Files copy_file is called on: a media file of the docs_dir, and one a
\* plugin wrote into the site_dir, whose source and destination are one file
CopyRecords == { File(IMG_PNG, DocsDir, SiteDir, TRUE), File(IMG_PNG, SiteDir, SiteDir, TRUE) }

\* the path utils.copy_file writes to when the destination is a directory
NestedPath(f) == PosixJoin(f.abs_dest_path, PosixBasename(f.abs_src_path))

DiskPaths == UNION { { f.abs_src_path, f.abs_dest_path, NestedPath(f) } : f \in CopyRecords }

DiskEntries == { Missing, Directory } \cup { RegularFile(b, t) : b \in Contents, t \in Times }

\* the file systems copy_file of f is called on: the source is a regular file;
\* below a destination that is a directory there is a regular file or nothing
Disks(f) ==
    { d \in [DiskPaths -> DiskEntries] :
        /\ isfile(d, f.abs_src_path)
        /\ IF isdir(d, f.abs_dest_path)
           THEN d[NestedPath(f)] # Directory
           ELSE d[NestedPath(f)] = Missing
        /\ \A p \in DiskPaths \ { f.abs_src_path, f.abs_dest_path, NestedPath(f) } : d[p] = Missing }

NoLog == [dirty |-> FALSE, message |-> ""]

CopyIdle == record = BlankFile /\ disk = <<>> /\ copy_log = NoLog

\* record.copy_file(dirty), at the time `now`
CopyFile(dirty, now) ==
    /\ LET r == File_copy_file(disk, record, dirty, now)
       IN  /\ disk' = r.disk
           /\ copy_log' = [dirty |-> dirty, message |-> r.message]
           /\ raised' = r.raised
    /\ UNCHANGED <<record, fileVars, relVars, navVars, walkVars, catVars>>

FileCopyFile == \E dirty \in BOOLEAN, now \in Times : CopyFile(dirty, now)

(***************************************************************************)
(* Specifications.                                                         *)
(***************************************************************************)
\* get_navigation on a catalog and a nav configuration
Init ==
    /\ FileIdle /\ RelIdle /\ WalkIdle /\ CatIdle /\ CopyIdle
    /\ raised = NoError
    /\ pc = "start"
    /\ \E paths \in CatalogPaths : files = Catalog(paths)
    /\ nav_config \in NavConfigs
    /\ nodes = <<>> /\ items = <<>> /\ pages = <<>> /\ todo = <<>>

Next ==
    \/ DataToNavigation
    \/ GetPages
    \/ AddPreviousAndNextLinks
    \/ AddParentLink
    \/ CreateMissingPages
    \/ Return
    \/ SetSectionActive

Spec == Init /\ [][Next]_vars

\* File(path, docs_dir, site_dir, use_directory_urls)
FileInitState ==
    /\ RelIdle /\ NavIdle /\ WalkIdle /\ CatIdle /\ CopyIdle
    /\ raised = NoError
    /\ fpc = "src_path"
    /\ fpath \in FilePaths
    /\ fdirurls \in BOOLEAN
    /\ file = BlankFile

FileNext == FSetSrcPath \/ FSetName \/ FSetDest \/ FSetUrl

FileSpec == FileInitState /\ [][FileNext]_vars

\* calls of get_relative_url
RelInitState ==
    /\ FileIdle /\ NavIdle /\ WalkIdle /\ CatIdle /\ CopyIdle
    /\ raised = NoError
    /\ rurl \in RelUrls
    /\ rother \in RelUrls
    /\ rresult = NoneStr

RelNext == RelCall

RelSpec == RelInitState /\ [][RelNext]_vars

\* get_files on a docs_dir, and calls of _filter_paths
WalkInitState ==
    /\ FileIdle /\ RelIdle /\ NavIdle /\ CatIdle /\ CopyIdle
    /\ raised = NoError
    /\ fresult = <<>>
    /\ \/ wpc = "walk" /\ docs \in DocsTrees /\ walk = << <<>> >> /\ fargs = NoArgs
       \/ wpc = "filter" /\ docs = {} /\ walk = <<>> /\ fargs \in FilterArgs

WalkNext == WalkDir \/ WalkReturn \/ FilterCall

WalkSpec == WalkInitState /\ [][WalkNext]_vars

\* the Files collection get_files returned, and the calls of its methods
CatInitState ==
    /\ FileIdle /\ RelIdle /\ NavIdle /\ CopyIdle
    /\ raised = NoError
    /\ wpc = "done"
    /\ docs \in CatTrees
    /\ walk = <<>> /\ fargs = NoArgs /\ fresult = <<>>
    /\ _files = get_files(docs)
    /\ _src_uris = <<>>
    /\ found = NoFound

CatNext == CatAppend \/ CatRemove \/ CatLookup \/ CatAddFilesFromTheme

CatSpec == CatInitState /\ [][CatNext]_vars

\* calls of copy_file on a File and a file system
CopyInitState ==
    /\ FileIdle /\ RelIdle /\ NavIdle /\ WalkIdle /\ CatIdle
    /\ raised = NoError
    /\ record \in CopyRecords
    /\ disk \in Disks(record)
    /\ copy_log = NoLog

CopyNext == FileCopyFile

CopySpec == CopyInitState /\ [][CopyNext]_vars

(***************************************************************************)
(* Claims about File.                                                      *)
(***************************************************************************)
\* the name the claims speak of: the last path segment without its extension,
\* 'index' for the stems 'index' and 'README'
ClaimName(src_uri) ==
    LET segs == Split(src_uri, "/")
        fname == segs[Len(segs)]
        dots == { i \in 2..Len(fname) : fname[i] = "." /\ \E j \in 1..(i-1) : fname[j] # "." }
        stem == IF dots = {} THEN fname
                ELSE SubSeq(fname, 1, (CHOOSE i \in dots : \A j \in dots : j <= i) - 1)
    IN  IF stem = INDEX \/ stem = README THEN INDEX ELSE stem

\* the destination the claim C8 gives for a source path
ClaimDest(src_uri, directoryUrls) ==
    LET segs == Split(src_uri, "/")
        parentDir == SubSeq(segs, 1, Len(segs) - 1)
        name == ClaimName(src_uri)
    IN  IF is_documentation_page(src_uri)
        THEN IF ~directoryUrls \/ name = INDEX
             THEN JoinWith(Append(parentDir, name \o DOTHTML), "/")
             ELSE JoinWith(parentDir \o <<name, INDEXHTML>>, "/")
        ELSE src_uri

\* C8: once File.__init__ has set dest_uri, dest_uri is parentDir/name.html for a
\* documentation page when directory urls are off or the name is 'index' (the
\* stems index and README both giving 'index'), parentDir/name/index.html for any
\* other documentation page, and src_uri for a file that is no documentation
\* page; foo/bar.md gives foo/bar/index.html and index.md gives index.html with
\* directory urls, foo/bar.md gives foo/bar.html without
C8_DestUri ==
    /\ fpc \in {"url", "done"} => file.dest_uri = ClaimDest(file.src_uri, fdirurls)
    /\ File(<<"f", "o", "o", "/", "b", "a", "r", ".", "m", "d">>, DocsDir, SiteDir, TRUE).dest_uri = <<"f", "o", "o", "/", "b", "a", "r", "/", "i", "n", "d", "e", "x", ".", "h", "t", "m", "l">>
    /\ File(<<"i", "n", "d", "e", "x", ".", "m", "d">>, DocsDir, SiteDir, TRUE).dest_uri = INDEXHTML
    /\ File(<<"f", "o", "o", "/", "b", "a", "r", ".", "m", "d">>, DocsDir, SiteDir, FALSE).dest_uri = <<"f", "o", "o", "/", "b", "a", "r", ".", "h", "t", "m", "l">>

\* a documentation page that is no index, built with directory urls, has got its
\* name/index.html destination
C8_Witness ==
    /\ fpc = "done"
    /\ fdirurls
    /\ is_documentation_page(file.src_uri)
    /\ file.name # INDEX
    /\ EndsWith(file.dest_uri, <<"/">> \o INDEXHTML)
    /\ Len(Split(file.dest_uri, "/")) = 3

\* the url the claim C9 gives for a destination, before any encoding
ClaimUrl(dest_uri, directoryUrls) ==
    LET segs == Split(dest_uri, "/")
    IN  IF directoryUrls /\ segs[Len(segs)] = INDEXHTML
        THEN IF Len(segs) = 1 THEN <<".">>
             ELSE JoinWith(SubSeq(segs, 1, Len(segs) - 1), "/") \o <<"/">>
        ELSE dest_uri

\* C9 as stated: the url of a File is the parent directory and '/' ('.' at the
\* root) when directory urls are on and the destination's basename is index.html,
\* and the destination itself in every other case
C9_UrlAsStated ==
    fpc = "done" => file.url = ClaimUrl(file.dest_uri, fdirurls)

\* C9 as amended: the url of a File is the percent-encoding of: the parent
\* directory and '/' ('.' at the root) when directory urls are on and the
\* destination's basename is index.html, the destination in every other case;
\* foo/bar.md has the url foo/bar/ and index.md the url '.' with directory urls,
\* foo/bar.md has the url foo/bar.html without
C9_Url ==
    /\ fpc = "done" => file.url = UrlQuote(ClaimUrl(file.dest_uri, fdirurls))
    /\ File(<<"f", "o", "o", "/", "b", "a", "r", ".", "m", "d">>, DocsDir, SiteDir, TRUE).url = <<"f", "o", "o", "/", "b", "a", "r", "/">>
    /\ File(<<"i", "n", "d", "e", "x", ".", "m", "d">>, DocsDir, SiteDir, TRUE).url = <<".">>
    /\ File(<<"f", "o", "o", "/", "b", "a", "r", ".", "m", "d">>, DocsDir, SiteDir, FALSE).url = <<"f", "o", "o", "/", "b", "a", "r", ".", "h", "t", "m", "l">>

\* a page below a directory whose name needs encoding has got its directory url
C9_Witness ==
    /\ fpc = "done"
    /\ fdirurls
    /\ PosixBasename(file.dest_uri) = INDEXHTML
    /\ EndsWith(file.url, <<"/">>)
    /\ \E i \in 1..Len(file.url) : file.url[i] = "%"

(***************************************************************************)
(* Claims about get_relative_url.                                          *)
(***************************************************************************)
\* the root-relative segments of a path: '.' and empty segments dropped, '..'
\* removing the segment before it, and nothing at the root
RECURSIVE ClaimResolve(_, _)
ClaimResolve(segs, stack) ==
    IF segs = <<>> THEN stack
    ELSE IF Head(segs) = <<>> \/ Head(segs) = <<".">> THEN ClaimResolve(Tail(segs), stack)
    ELSE IF Head(segs) = DOTDOT
    THEN ClaimResolve(Tail(segs), SubSeq(stack, 1, Len(stack) - 1))
    ELSE ClaimResolve(Tail(segs), Append(stack, Head(segs)))

ClaimSegments(path) == ClaimResolve(Split(path, "/"), <<>>)

\* the segments of `other` with its last segment dropped when it contains a '.'
ClaimOtherSegments(other) ==
    LET raw == Split(other, "/")
        last == raw[Len(raw)]
    IN  IF \E i \in 1..Len(last) : last[i] = "."
        THEN ClaimResolve(SubSeq(raw, 1, Len(raw) - 1), <<>>)
        ELSE ClaimResolve(raw, <<>>)

\* the length of the longest common prefix of two segment lists
ClaimCommon(a, b) ==
    CHOOSE c \in 0..Len(a) :
        /\ c <= Len(b)
        /\ \A i \in 1..c : a[i] = b[i]
        /\ (c < Len(a) /\ c < Len(b)) => a[c + 1] # b[c + 1]

\* the relative url the claim C10 describes
ClaimRelativeUrl(url, other) ==
    LET o == ClaimOtherSegments(other)
        u == ClaimSegments(url)
        c == ClaimCommon(o, u)
        rel == [i \in 1..(Len(o) - c) |-> DOTDOT] \o SubSeq(u, c + 1, Len(u))
        joined == IF rel = <<>> THEN <<".">> ELSE JoinWith(rel, "/")
    IN  IF url # <<>> /\ url[Len(url)] = "/" THEN Append(joined, "/") ELSE joined

\* the number of '..' segments of a relative url
DotDots(relurl) == Cardinality({ i \in 1..Len(Split(relurl, "/")) : Split(relurl, "/")[i] = DOTDOT })

RECURSIVE ClaimLeafPaths(_)
ClaimLeafPaths(data) ==
    CASE data.t = "str"   -> { data.s }
      [] data.t = "tuple" -> { data.b }
      [] data.t = "list"  -> UNION { ClaimLeafPaths(data.xs[i]) : i \in 1..Len(data.xs) }
      [] data.t = "dict"  -> UNION { ClaimLeafPaths(data.kv[i][2]) : i \in 1..Len(data.kv) }
      [] OTHER            -> {}

\* file i is reachable from the nav configuration: a leaf names its src_uri, or
\* no configuration is given and the navigation is inferred from every
\* documentation page
Referenced(i) ==
    IF Truthy(nav_config)
    THEN \E p \in ClaimLeafPaths(nav_config) : AsPosix(p) = files[i].src_uri
    ELSE is_documentation_page(files[i].src_uri)

DocFiles == { i \in 1..Len(files) : is_documentation_page(files[i].src_uri) }

\* the documentation files the nav configuration does not reach
Orphans == { i \in DocFiles : ~Referenced(i) }

Range(q) == { q[i] : i \in 1..Len(q) }

\* the objects met by walking down from a list of objects through `children`
RECURSIVE ClaimReach(_)
ClaimReach(nav) ==
    Range(nav) \cup UNION { ClaimReach(nodes[nav[i]].children) : i \in 1..Len(nav) }

\* C1: when get_navigation has returned, every documentation File of the catalog
\* refers to a Page (of that File), whether or not the nav configuration reaches it
C1_EveryDocHasPage ==
    pc = "done" =>
        \A i \in DocFiles :
            /\ files[i].page \in DOMAIN nodes
            /\ nodes[files[i].page].kind = "Page"
            /\ nodes[files[i].page].file = i

\* the build is over for a catalog with a page the configuration reaches and a
\* page it does not reach
C1_Witness ==
    /\ pc = "done"
    /\ Truthy(nav_config)
    /\ Orphans # {}
    /\ DocFiles \ Orphans # {}
    /\ \A i \in DocFiles : files[i].page # 0

\* C2 as stated: the Page made for a documentation file the nav configuration
\* does not reach is in Navigation.pages and is linked into the previous/next
\* chain of that list
C2_OrphanInPagesAsStated ==
    pc = "done" =>
        \A i \in Orphans :
            \E k \in 1..Len(pages) :
                /\ pages[k] = files[i].page
                /\ nodes[pages[k]].previous_page = (IF k = 1 THEN 0 ELSE pages[k - 1])
                /\ nodes[pages[k]].next_page = (IF k = Len(pages) THEN 0 ELSE pages[k + 1])

\* C2 as amended: for every documentation file the nav configuration does not
\* reach, get_navigation makes a Page without a title that is bound to the file
\* and assigned to file.page; that Page is not in Navigation.pages and is not
\* linked into the previous/next chain: its own previous_page and next_page are
\* None and no Page has it as previous_page or next_page
C2_OrphanPageStandsAlone ==
    pc = "done" =>
        \A i \in Orphans :
            LET p == files[i].page
            IN  /\ p \in DOMAIN nodes
                /\ nodes[p].kind = "Page"
                /\ nodes[p].file = i
                /\ nodes[p].title = NoneStr
                /\ p \notin Range(pages)
                /\ nodes[p].previous_page = 0
                /\ nodes[p].next_page = 0
                /\ \A q \in DOMAIN nodes : nodes[q].previous_page # p /\ nodes[q].next_page # p

\* the build is over with two Pages in the chain and two Pages made for files
\* the configuration does not reach
C2_Witness ==
    /\ pc = "done"
    /\ Len(pages) >= 2
    /\ Cardinality(Orphans) >= 2
    /\ \A i \in Orphans : files[i].page # 0 /\ files[i].page \notin Range(pages)

\* C3: the Page made for a documentation file the nav configuration does not
\* reach is no top-level item, no child of a Section, and is not met by walking
\* the tree from Navigation.items
C3_OrphanNotInTree ==
    pc = "done" =>
        \A i \in Orphans :
            LET p == files[i].page
            IN  /\ p \notin Range(items)
                /\ \A s \in DOMAIN nodes : p \notin Range(nodes[s].children)
                /\ p \notin ClaimReach(items)

\* the build is over with a Page made for an unreached file, beside a tree that
\* has a Section with a Page in it
C3_Witness ==
    /\ pc = "done"
    /\ \E i \in Orphans : files[i].page # 0
    /\ \E s \in Range(items) :
          /\ nodes[s].kind = "Section"
          /\ \E c \in Range(nodes[s].children) : nodes[c].kind = "Page"

\* C4: when get_navigation has returned, the first Page of Navigation.pages has
\* no previous_page, the last has no next_page, and for every other position i
\* pages[i].previous_page is pages[i-1] and pages[i-1].next_page is pages[i]
C4_PreviousNextChain ==
    pc = "done" =>
        LET N == Len(pages)
        IN  /\ N > 0 => nodes[pages[1]].previous_page = 0 /\ nodes[pages[N]].next_page = 0
            /\ \A i \in 2..N :
                  /\ nodes[pages[i]].previous_page = pages[i - 1]
                  /\ nodes[pages[i - 1]].next_page = pages[i]
                  /\ nodes[nodes[pages[i]].previous_page].next_page = pages[i]

\* the build is over with a chain of at least three Pages
C4_Witness ==
    /\ pc = "done"
    /\ Len(pages) >= 3
    /\ nodes[pages[2]].previous_page = pages[1]
    /\ nodes[pages[2]].next_page = pages[3]

\* the Sections above s: those from whose children s is met by walking down
ClaimAncestors(s) ==
    { a \in DOMAIN nodes : nodes[a].kind = "Section" /\ s \in ClaimReach(nodes[a].children) }

\* C5: a step that sets the active flag of a Section s to v leaves v in the flag
\* of s and of every Section above s, and leaves the flag of every other object
\* as it was
C5_ActiveCascade ==
    [][\A s \in DOMAIN nodes, v \in BOOLEAN :
          SetActive(s, v) =>
              /\ DOMAIN nodes' = DOMAIN nodes
              /\ \A n \in DOMAIN nodes :
                    nodes'[n].active = (IF n = s \/ n \in ClaimAncestors(s)
                                        THEN v ELSE nodes[n].active)]_vars

\* a Section two levels down is active with the two Sections above it, while a
\* Section beside it is not
C5_Witness ==
    /\ pc = "done"
    /\ \E s \in DOMAIN nodes, t \in DOMAIN nodes :
          /\ s # t
          /\ nodes[s].kind = "Section" /\ nodes[t].kind = "Section"
          /\ Cardinality(ClaimAncestors(s)) = 2
          /\ nodes[t].parent = nodes[s].parent
          /\ nodes[s].active
          /\ \A a \in ClaimAncestors(s) : nodes[a].active
          /\ ~nodes[t].active

\* the places of the tree: <<path, object>>, the path being the positions taken
\* from Navigation.items down to the object
RECURSIVE ClaimPlaces(_, _)
ClaimPlaces(nav, prefix) ==
    UNION { { <<Append(prefix, i), nav[i]>> }
            \cup ClaimPlaces(nodes[nav[i]].children, Append(prefix, i)) : i \in 1..Len(nav) }

\* path p comes before path q in a depth-first, left-to-right walk
ClaimBefore(p, q) ==
    \E k \in 1..Len(q) :
        /\ \A j \in 1..(k - 1) : j <= Len(p) /\ p[j] = q[j]
        /\ k > Len(p) \/ p[k] < q[k]

\* C6: once `pages` is computed it holds exactly the Pages of the tree, each
\* once, and a Page that a depth-first, left-to-right walk of the items meets
\* first comes first
C6_PagesInTreeOrder ==
    pc \notin {"start", "pages"} =>
        LET places == ClaimPlaces(items, <<>>)
            pagePlaces == { pl \in places : nodes[pl[2]].kind = "Page" }
            PlaceOf(n) == (CHOOSE pl \in places : pl[2] = n)[1]
        IN  /\ \A pl \in pagePlaces : Cardinality({ k \in 1..Len(pages) : pages[k] = pl[2] }) = 1
            /\ \A k \in 1..Len(pages) : \E pl \in pagePlaces : pl[2] = pages[k]
            /\ \A k \in 1..Len(pages), m \in 1..Len(pages) :
                  k < m => ClaimBefore(PlaceOf(pages[k]), PlaceOf(pages[m]))

\* `pages` is computed for a tree in which a Page inside a Section comes before
\* a top-level Page
C6_Witness ==
    /\ pc = "prevnext"
    /\ Len(pages) >= 2
    /\ \E k \in 1..(Len(pages) - 1) :
          /\ pages[k] \notin Range(items)
          /\ pages[k + 1] \in Range(items)

\* C7: when get_navigation has returned, every child of a Section has that
\* Section as parent, at every depth, and every top-level item has no parent;
\* and a parent, once assigned, is never assigned again: every pending
\* assignment is to an object without a parent, and no step changes a parent
\* that is set
C7_ParentLinks ==
    /\ [](/\ pc = "done" =>
                /\ \A s \in DOMAIN nodes : \A c \in Range(nodes[s].children) :
                      nodes[s].kind = "Section" /\ nodes[c].parent = s
                /\ \A t \in Range(items) : nodes[t].parent = 0
          /\ \A k \in 1..Len(todo) : nodes[todo[k][1]].parent = 0)
    /\ [][\A n \in DOMAIN nodes :
              nodes[n].parent # 0 => n \in DOMAIN nodes' /\ nodes'[n].parent = nodes[n].parent]_vars

\* the build is over for a tree three levels deep
C7_Witness ==
    /\ pc = "done"
    /\ \E c \in DOMAIN nodes :
          /\ nodes[c].parent # 0
          /\ nodes[nodes[c].parent].parent # 0
          /\ nodes[nodes[nodes[c].parent].parent].parent = 0
          /\ nodes[nodes[c].parent].parent \in Range(items)

(***************************************************************************)
(* C11: a url taken relative to itself.                                    *)
(***************************************************************************)
\* the last segment of a slash-separated path (empty after a trailing slash)
ClaimLastSegment(path) == SubSeq(path, RFind(path, "/") + 1, Len(path))

ClaimHasDot(seg) == \E i \in 1..Len(seg) : seg[i] = "."

\* '.', with the trailing slash of the url kept
ClaimHere(url) == IF EndsWith(url, <<"/">>) THEN <<".", "/">> ELSE <<".">>

\* C11 as stated: get_relative_url(u, u) is '.' (the trailing slash of u kept)
\* for every u, a u that names a file such as 'x.html' included.
C11_SelfIsDotAsStated ==
    (rresult # NoneStr /\ rurl = rother) => rresult = ClaimHere(rurl)

\* C11: get_relative_url(u, u) is '.' (the trailing slash of u kept) when the
\* last segment of u has no dot, so that u is taken as a directory; when the last
\* segment is a file name with a dot, it is dropped from the reference only and
\* the result is that file name: get_relative_url('x.html', 'x.html') = 'x.html'.
C11_SelfIsDotForDirectories ==
    (rresult # NoneStr /\ rurl = rother) =>
        LET last == ClaimLastSegment(rurl)
        IN  /\ ~ClaimHasDot(last) => rresult = ClaimHere(rurl)
            /\ (ClaimHasDot(last) /\ last \notin { <<".">>, DOTDOT }) => rresult = last

\* the file url 'a.b' was taken relative to itself
C11_Witness ==
    /\ rurl = <<"a", ".", "b">>
    /\ rother = rurl
    /\ rresult = <<"a", ".", "b">>

(***************************************************************************)
(* C12: one File per src_uri in a Files collection.                        *)
(***************************************************************************)
\* C12 as stated: in every state of a Files collection that get_files returned
\* and append, remove and add_files_from_theme were called on, no two elements
\* of _files have the same src_uri.
C12_OnePerSrcUriAsStated ==
    \A i, j \in 1..Len(_files) : _files[i].src_uri = _files[j].src_uri => i = j

(***************************************************************************)
(* C13: index.md and README.md in one directory.                           *)
(***************************************************************************)
\* the directories of the tree below docs_dir, as lists of path segments
ClaimDirs == { SubSeq(p, 1, Len(p) - 1) : p \in docs }

\* the src_uri of the file `name` of the directory dir
ClaimUri(dir, name) == JoinWith(Append(dir, name), "/")

ClaimHasRecord(uri) == \E i \in 1..Len(_files) : _files[i].src_uri = uri

ClaimHoldsBoth(dir) == Append(dir, INDEX_MD) \in docs /\ Append(dir, README_MD) \in docs

TEMPLATES == <<"t", "e", "m", "p", "l", "a", "t", "e", "s">>

\* the built-in ignore list keeps get_files out of the directory: a segment of
\* its path starts with a dot, or it lies in templates/ at the root
ClaimPruned(dir) ==
    \/ \E k \in 1..Len(dir) : dir[k] # <<>> /\ Head(dir[k]) = "."
    \/ dir # <<>> /\ dir[1] = TEMPLATES

\* C13 as stated: for every directory below docs_dir that holds index.md and
\* README.md, the Files collection get_files returns has a File for its index.md
\* and none for its README.md.
C13_IndexWinsAsStated ==
    wpc = "done" =>
        \A dir \in ClaimDirs :
            ClaimHoldsBoth(dir) =>
                /\ ClaimHasRecord(ClaimUri(dir, INDEX_MD))
                /\ ~ClaimHasRecord(ClaimUri(dir, README_MD))

\* C13: for every directory below docs_dir that holds index.md and README.md and
\* that the ignore list does not keep get_files out of, the Files collection
\* get_files returns has a File for its index.md and none for its README.md; in
\* a pruned directory neither file gets a File.
C13_IndexWinsWhereWalked ==
    wpc = "done" =>
        \A dir \in ClaimDirs :
            ClaimHoldsBoth(dir) =>
                /\ ~ClaimPruned(dir) => ClaimHasRecord(ClaimUri(dir, INDEX_MD))
                /\ ClaimPruned(dir) => ~ClaimHasRecord(ClaimUri(dir, INDEX_MD))
                /\ ~ClaimHasRecord(ClaimUri(dir, README_MD))

\* get_files returned from a docs_dir whose directory x holds both files, with a
\* File for x/index.md alone
C13_Witness ==
    /\ wpc = "done"
    /\ ClaimHoldsBoth(<< <<"x">> >>)
    /\ ClaimHasRecord(ClaimUri(<< <<"x">> >>, INDEX_MD))
    /\ ~ClaimHasRecord(ClaimUri(<< <<"x">> >>, README_MD))

(***************************************************************************)
(* C14: the number of File objects get_files makes.                        *)
(***************************************************************************)
\* an entry on the way to the file p matches the built-in ignore list
ClaimIgnored(p) ==
    \/ \E k \in 1..Len(p) : p[k] # <<>> /\ Head(p[k]) = "."
    \/ p[1] = TEMPLATES

ClaimNoDuplicateUri == \A i, j \in 1..Len(_files) : _files[i].src_uri = _files[j].src_uri => i = j

\* the directories in which README.md stands beside index.md
ClaimShadowed == { dir \in ClaimDirs : ClaimHoldsBoth(dir) }

\* C14 as stated: for a tree without ignored entries get_files returns as many
\* File objects as the tree has files, with pairwise different src_uri.
C14_CountAsStated ==
    (wpc = "done" /\ \A p \in docs : ~ClaimIgnored(p)) =>
        /\ Len(_files) = Cardinality(docs)
        /\ ClaimNoDuplicateUri

\* C14: for a tree without ignored entries get_files returns as many File objects
\* as the tree has files, less one for every directory that holds README.md
\* beside index.md, and their src_uri are pairwise different.
C14_CountLessShadowedReadmes ==
    (wpc = "done" /\ \A p \in docs : ~ClaimIgnored(p)) =>
        /\ Len(_files) = Cardinality(docs) - Cardinality(ClaimShadowed)
        /\ ClaimNoDuplicateUri

\* get_files returned two File objects from a tree of three files without
\* ignored entries, among them x/index.md and x/README.md
C14_Witness ==
    /\ wpc = "done"
    /\ \A p \in docs : ~ClaimIgnored(p)
    /\ Cardinality(docs) = 3
    /\ ClaimShadowed = { << <<"x">> >> }
    /\ Len(_files) = 2

(***************************************************************************)
(* C15: get_file_from_path after append and remove.                        *)
(***************************************************************************)
\* the places of _files that hold a File with the src_uri key
ClaimPlacesOf(fs, key) == { i \in 1..Len(fs) : fs[i].src_uri = key }

\* C15: whatever calls of append, remove, add_files_from_theme and
\* get_file_from_path came before, get_file_from_path(path) leaves _files as it
\* is and returns an element of _files whose src_uri is the path (in its
\* '/'-separated form) when _files has one, and None when it has none: no index
\* built by an earlier lookup survives a change of _files.
C15_LookupNeverStale ==
    [][\A path \in CatKeys :
          GetFileFromPath(path) =>
              /\ _files' = _files
              /\ found'.path = path
              /\ IF ClaimPlacesOf(_files, AsPosix(path)) = {}
                 THEN found'.file = <<>>
                 ELSE /\ found'.file # <<>>
                      /\ \E i \in ClaimPlacesOf(_files, AsPosix(path)) : _files[i] = found'.file[1]]_vars

\* a lookup that followed a lookup and a change of _files returned a File of _files
C15_Witness ==
    /\ _files # get_files(docs)
    /\ _src_uris # <<>>
    /\ found.file # <<>>
    /\ found.file[1].src_uri = AsPosix(found.path)
    /\ \E i \in 1..Len(_files) : _files[i] = found.file[1]
    /\ found.file[1].abs_src_path = ThemeDirT \o <<"/">> \o A_MD

(***************************************************************************)
(* C16: the order of the File objects get_files makes.                     *)
(***************************************************************************)
\* C16 as stated: whatever order the operating system lists the names of each
\* directory in, get_files returns the File objects in one and the same order,
\* the order it returns them in when every directory is listed sorted.
C16_OrderAsStated ==
    wpc = "done" =>
        [i \in 1..Len(_files) |-> _files[i].src_uri]
            = [i \in 1..Len(get_files(docs)) |-> get_files(docs)[i].src_uri]

(***************************************************************************)
(* C17: the ignore list.                                                   *)
(***************************************************************************)
\* the claim's reading of one pattern of an ignore list
ClaimPatternExcludes(item, basename, path, is_dir) ==
    /\ ~(EndsWith(item, <<"/">>) /\ ~is_dir)
    /\ Fnmatch(IF StartsWith(item, <<"/">>) THEN path ELSE basename, Strip(item, "/"))

\* C17: no File of the collection get_files returns has a src_uri with a segment
\* that starts with '.', and none lies in the directory templates of docs_dir,
\* while every other file of the tree (a README.md beside an index.md apart),
\* those of a nested x/templates included, has its File; and _filter_paths
\* answers True exactly when some pattern of the list excludes the entry, a
\* pattern that starts with '/' being matched against the whole relative path,
\* any other against the basename, and a pattern that ends in '/' excluding no file.
C17_IgnoreList ==
    /\ wpc = "done" =>
          /\ \A i \in 1..Len(_files) :
                LET segs == Split(_files[i].src_uri, "/")
                IN  /\ \A k \in 1..Len(segs) : segs[k] = <<>> \/ Head(segs[k]) # "."
                    /\ segs[1] # TEMPLATES
          /\ \A p \in docs :
                (~ClaimIgnored(p) /\ ~(p[Len(p)] = README_MD /\ ClaimHoldsBoth(SubSeq(p, 1, Len(p) - 1))))
                    => ClaimHasRecord(JoinWith(p, "/"))
    /\ fresult # <<>> =>
          fresult[1] = (\E k \in 1..Len(fargs.exclude) :
                            ClaimPatternExcludes(fargs.exclude[k], fargs.basename, fargs.path, fargs.is_dir))

\* get_files returned from a tree with files in templates/, in x/.git/ and in
\* x/templates/, with a File for the last one alone
C17_Witness ==
    /\ wpc = "done"
    /\ docs = { <<<<"t", "e", "m", "p", "l", "a", "t", "e", "s">>, <<"i", "n", "d", "e", "x", ".", "m", "d">>>>, <<<<"x">>, <<".", "g", "i", "t">>, <<"c", ".", "m", "d">>>>, <<<<"x">>, <<"t", "e", "m", "p", "l", "a", "t", "e", "s">>, <<"t", ".", "m", "d">>>> }
    /\ Len(_files) = 1
    /\ _files[1].src_uri = <<"x", "/", "t", "e", "m", "p", "l", "a", "t", "e", "s", "/", "t", ".", "m", "d">>

(***************************************************************************)
(* C18: add_files_from_theme.                                              *)
(***************************************************************************)
\* the theme directories, in the order of config['theme'].dirs, that hold path
ClaimHolders(theme, path) == { k \in 1..Len(theme.dirs) : path \in theme.dirs[k].paths }

\* C18: add_files_from_theme leaves the File objects it finds in _files where
\* they are, appends no File whose src_uri is already there, and appends, for
\* each template name let through by the filter whose path is not there yet,
\* exactly one File, with the first theme directory that holds the path as its
\* source directory, and none when no theme directory holds it.
C18_ThemeFilesNeverOverride ==
    [][\A theme \in Themes :
          AddFilesFromTheme(theme) =>
              LET old == Len(_files)
                  added == { j \in 1..Len(_files') : j > old }
                  present(u) == \E i \in 1..old : _files[i].src_uri = u
                  accepted == { AsPosix(list_templates[theme][n]) : n \in 1..Len(list_templates[theme]) }
              IN  /\ Len(_files') >= old
                  /\ SubSeq(_files', 1, old) = _files
                  /\ \A j \in added :
                        /\ ~present(_files'[j].src_uri)
                        /\ _files'[j].src_uri \in accepted
                        /\ \A k \in added : _files'[k].src_uri = _files'[j].src_uri => k = j
                  /\ \A u \in accepted :
                        ~present(u) =>
                            IF ClaimHolders(theme, u) = {}
                            THEN \A j \in added : _files'[j].src_uri # u
                            ELSE LET first == CHOOSE k \in ClaimHolders(theme, u) :
                                                  \A l \in ClaimHolders(theme, u) : k <= l
                                 IN  \E j \in added :
                                        /\ _files'[j].src_uri = u
                                        /\ _files'[j].abs_src_path = theme.dirs[first].dir \o <<"/">> \o u]_vars

\* add_files_from_theme left img.png of the docs_dir alone and appended
\* main.css from the first theme directory
C18_Witness ==
    /\ Len(_files) = 3
    /\ _files[2].src_uri = IMG_PNG
    /\ _files[2].abs_src_path = DocsDir \o <<"/">> \o IMG_PNG
    /\ _files[3].src_uri = MAIN_CSS
    /\ _files[3].abs_src_path = ThemeDirT \o <<"/">> \o MAIN_CSS

(***************************************************************************)
(* C19: the tree built from a nav configuration.                           *)
(***************************************************************************)
\* what the claim makes of a leaf: a Page on the File whose src_uri the path
\* names, a Link to the literal path without one
ClaimLeaf(title, path) ==
    IF \E i \in 1..Len(files) : files[i].src_uri = AsPosix(path)
    THEN [kind |-> "Page", title |-> title, target |-> AsPosix(path), children |-> <<>>]
    ELSE [kind |-> "Link", title |-> title, target |-> path, children |-> <<>>]

\* what the claim makes of a configuration value: the list of the objects it stands for
RECURSIVE ClaimConvert(_)
RECURSIVE ClaimConvertEntries(_)
RECURSIVE ClaimConvertItems(_)
ClaimConvert(data) ==
    CASE data.t = "str"   -> <<ClaimLeaf(NoneStr, data.s)>>
      [] data.t = "tuple" -> <<ClaimLeaf(data.a, data.b)>>
      [] data.t = "dict"  -> ClaimConvertEntries(data.kv)
      [] data.t = "list"  -> ClaimConvertItems(data.xs)

ClaimConvertEntries(kv) ==
    IF kv = <<>> THEN <<>>
    ELSE (IF Head(kv)[2].t = "str"
          THEN <<ClaimLeaf(Head(kv)[1], Head(kv)[2].s)>>
          ELSE << [kind |-> "Section", title |-> Head(kv)[1], target |-> NoneStr,
                   children |-> ClaimConvert(Head(kv)[2])] >>)
         \o ClaimConvertEntries(Tail(kv))

ClaimConvertItems(xs) ==
    IF xs = <<>> THEN <<>>
    ELSE <<ClaimConvert(Head(xs))[1]>> \o ClaimConvertItems(Tail(xs))

\* the tree that hangs from a list of objects of the heap
RECURSIVE ClaimTree(_)
ClaimTree(nav) ==
    [i \in 1..Len(nav) |->
        LET n == nodes[nav[i]]
        IN  [kind |-> n.kind,
             title |-> n.title,
             target |-> CASE n.kind = "Page" -> files[n.file].src_uri
                          [] n.kind = "Link" -> n.url
                          [] OTHER -> NoneStr,
             children |-> ClaimTree(n.children)]]

\* C19: the items get_navigation builds from a nav configuration have the shape
\* of the configuration: a Section titled by its key, over the converted value,
\* for a mapping entry whose value is no string; one leaf for a mapping entry
\* with a string value, a bare string or a (title, path) pair; the one child for
\* a list entry that is a mapping of one key.  A leaf is a Page on the File whose
\* src_uri its path names, or else a Link whose url is the path as written.
C19_TreeOfTheConfiguration ==
    (pc \notin { "idle", "start", "raised" } /\ Truthy(nav_config)) =>
        ClaimTree(items) = ClaimConvert(nav_config)

\* a navigation was built with a Section over a titled Page and a Link
C19_Witness ==
    /\ pc = "done"
    /\ Truthy(nav_config)
    /\ \E s \in 1..Len(nodes) :
          /\ nodes[s].kind = "Section"
          /\ \E i \in 1..Len(items) : items[i] = s
          /\ \E c, d \in Range(nodes[s].children) :
                /\ nodes[c].kind = "Page" /\ nodes[c].title = TitleT
                /\ files[nodes[c].file].src_uri = D_B_MD
                /\ nodes[d].kind = "Link" /\ nodes[d].url = X_URL

(***************************************************************************)
(* C20: the navigation inferred from the catalog.                          *)
(***************************************************************************)
\* the title the claim gives a directory segment
ClaimTitle(seg) ==
    LET spaced == [i \in 1..Len(seg) |-> IF seg[i] \in { "-", "_" } THEN " " ELSE seg[i]]
    IN  IF \E i \in 1..Len(seg) : \E k \in 1..26 : seg[i] = UpperCase[k]
        THEN spaced
        ELSE [i \in 1..Len(spaced) |-> IF i = 1 THEN Upper(spaced[i]) ELSE spaced[i]]

\* the directory segments of a src_uri
ClaimDirSegments(uri) == SubSeq(Split(uri, "/"), 1, Len(Split(uri, "/")) - 1)

\* C20 as stated: when get_navigation has returned for an absent (or empty) nav
\* configuration, every documentation File has exactly one Page in the tree, the
\* tree has no Link and the heap no Page outside the tree; the Sections above a
\* Page are titled, from the top, by the titles of the directory segments of its
\* src_uri; no two sibling Sections have the same title; and of two siblings the
\* one whose first File comes first in the catalog comes first.
C20_InferredNavigationAsStated ==
    (pc = "done" /\ ~Truthy(nav_config)) =>
        LET places == ClaimPlaces(items, <<>>)
            NodeAt(path) == (CHOOSE pl \in places : pl[1] = path)[2]
            pagePlaces == { pl \in places : nodes[pl[2]].kind = "Page" }
            Under(pl) == { q \in pagePlaces : Len(q[1]) >= Len(pl[1])
                                              /\ SubSeq(q[1], 1, Len(pl[1])) = pl[1] }
            First(pl) == CHOOSE i \in { nodes[q[2]].file : q \in Under(pl) } :
                            \A q \in Under(pl) : i <= nodes[q[2]].file
            Siblings(pl, ql) == /\ Len(pl[1]) = Len(ql[1])
                                /\ SubSeq(pl[1], 1, Len(pl[1]) - 1) = SubSeq(ql[1], 1, Len(ql[1]) - 1)
        IN  /\ \A i \in DocFiles : Cardinality({ pl \in pagePlaces : nodes[pl[2]].file = i }) = 1
            /\ \A pl \in pagePlaces : nodes[pl[2]].file \in DocFiles
            /\ \A pl \in places : nodes[pl[2]].kind # "Link"
            /\ \A n \in DOMAIN nodes : \E pl \in places : pl[2] = n
            /\ \A pl \in pagePlaces :
                  LET dirs == ClaimDirSegments(files[nodes[pl[2]].file].src_uri)
                  IN  /\ Len(pl[1]) = Len(dirs) + 1
                      /\ \A j \in 1..Len(dirs) :
                            /\ nodes[NodeAt(SubSeq(pl[1], 1, j))].kind = "Section"
                            /\ nodes[NodeAt(SubSeq(pl[1], 1, j))].title = ClaimTitle(dirs[j])
            /\ \A pl, ql \in places :
                  (Siblings(pl, ql) /\ nodes[pl[2]].kind = "Section" /\ nodes[ql[2]].kind = "Section"
                   /\ nodes[pl[2]].title = nodes[ql[2]].title) => pl = ql
            /\ \A pl, ql \in places :
                  (Siblings(pl, ql) /\ pl[1][Len(pl[1])] < ql[1][Len(ql[1])]) => First(pl) < First(ql)


(***************************************************************************)
(* C21: the page back-reference of a File is assigned at most once.        *)
(***************************************************************************)
\* the Pages constructed for the File i so far: each construction executed
\* `file.page = self` once, so their number is the number of assignments
ClaimAssignments(i) == { n \in DOMAIN nodes : nodes[n].kind = "Page" /\ nodes[n].file = i }

\* C21 as stated: at every point of one run of get_navigation, and for every
\* nav configuration it accepts (one that names a src_uri in several leaves
\* included), the attribute `page` of each File of the catalog has been
\* assigned at most once.
C21_PageAssignedOnceAsStated ==
    \A i \in DOMAIN files : Cardinality(ClaimAssignments(i)) <= 1


(***************************************************************************)
(* C22: when copy_file skips the copy and when it copies.                  *)
(***************************************************************************)
\* the call logged that it skipped the copy
ClaimSkipped(log) == log.message = SkipMessage

\* the regular file at `path` holds the bytes the source held before the call
ClaimHoldsSource(path) ==
    /\ disk'[path].kind = "file"
    /\ disk'[path].bytes = disk[record.abs_src_path].bytes

\* C22 as stated: a call record.copy_file(dirty) skips the copy exactly when
\* dirty is set and the destination is a file with a modification time newer
\* than the source's; a call that skips leaves the file system alone, any other
\* call leaves the bytes of the source in the destination; no call lets an
\* exception out, the copy of a file onto itself included.
C22_CopyAsStated ==
    [][LET src == record.abs_src_path
           dst == record.abs_dest_path
           newer == disk[dst].kind = "file" /\ disk[dst].mtime > disk[src].mtime
       IN  /\ ClaimSkipped(copy_log') <=> (copy_log'.dirty /\ newer)
           /\ ClaimSkipped(copy_log') => disk' = disk
           /\ ~ClaimSkipped(copy_log') => ClaimHoldsSource(dst)
           /\ raised' = NoError]_vars

\* C22, amended: the copy is skipped exactly when dirty is set and the
\* destination is a regular file whose modification time is not older than the
\* source's (equal times included); a call that skips leaves the file system
\* alone; any other call leaves the bytes of the source in the destination, or,
\* when the destination path is a directory, in the file of the source's base
\* name inside it, and changes nothing else; no call lets an exception out,
\* the copy of a file onto itself included.
C22_CopyUnlessNotOlder ==
    [][LET src == record.abs_src_path
           dst == record.abs_dest_path
           notOlder == disk[dst].kind = "file" /\ disk[dst].mtime >= disk[src].mtime
           target == IF disk[dst].kind = "dir" THEN NestedPath(record) ELSE dst
       IN  /\ ClaimSkipped(copy_log') <=> (copy_log'.dirty /\ notOlder)
           /\ ClaimSkipped(copy_log') => disk' = disk
           /\ ~ClaimSkipped(copy_log') =>
                 /\ ClaimHoldsSource(target)
                 /\ \A p \in DiskPaths \ {target} : disk'[p] = disk[p]
           /\ raised' = NoError]_vars

\* a dirty call skipped the copy of a record whose destination is another file
\* than its source and exactly as old as it
C22_Witness ==
    /\ copy_log.dirty
    /\ ClaimSkipped(copy_log)
    /\ record.abs_dest_path # record.abs_src_path
    /\ disk[record.abs_dest_path].kind = "file"
    /\ disk[record.abs_dest_path].mtime = disk[record.abs_src_path].mtime


(***************************************************************************)
(* C23: a leaf that is no string and no pair fails the build.              *)
(***************************************************************************)
\* the value contains a leaf that is neither a str nor a tuple of two elements
RECURSIVE ClaimMalformed(_)
ClaimMalformed(data) ==
    CASE data.t \in {"str", "tuple"} -> FALSE
      [] data.t \in {"int", "none", "ntuple"} -> TRUE
      [] data.t = "list" -> \E i \in 1..Len(data.xs) : ClaimMalformed(data.xs[i])
      [] data.t = "dict" -> \E i \in 1..Len(data.kv) : ClaimMalformed(data.kv[i][2])

\* C23 as stated: for a nav configuration that is given (not None) and contains
\* a leaf that is neither a string nor a two-element pair, get_navigation never
\* gets past the conversion: it lets an exception out, returns no Navigation
\* (no items, no pages), and leaves no Page and no Link made from that leaf.
C23_MalformedLeafFailsAsStated ==
    (nav_config # PNone /\ ClaimMalformed(nav_config)) =>
        /\ pc \in {"start", "raised"}
        /\ pc = "raised" => (raised # NoError /\ items = <<>> /\ pages = <<>>)


(***************************************************************************)
(* C25: Files.remove.                                                      *)
(***************************************************************************)
\* the places of fs that hold a File equal to f: the same src_uri, abs_src_path
\* and url
ClaimEqualPlaces(fs, f) ==
    { i \in 1..Len(fs) : /\ fs[i].src_uri = f.src_uri
                         /\ fs[i].abs_src_path = f.abs_src_path
                         /\ fs[i].url = f.url }

\* C25: files.remove(f) on a collection holding a File equal to f takes out
\* exactly the first such element and keeps the others in their order, without
\* an exception; on a collection holding none it lets an exception out and
\* leaves _files as it is; and a get_file_from_path that follows a failed
\* remove returns an element of that unchanged _files with the asked src_uri
\* when there is one, and None when there is none.
C25_RemoveFirstEqual ==
    [][/\ \A f \in CatFiles :
             Remove(f) =>
                 LET places == ClaimEqualPlaces(_files, f)
                 IN  IF places = {}
                     THEN raised' # NoError /\ _files' = _files
                     ELSE LET k == CHOOSE i \in places : \A j \in places : i <= j
                          IN  /\ raised' = NoError
                              /\ Len(_files') = Len(_files) - 1
                              /\ \A i \in 1..Len(_files') :
                                    _files'[i] = IF i < k THEN _files[i] ELSE _files[i + 1]
       /\ \A path \in CatKeys :
             (raised # NoError /\ GetFileFromPath(path)) =>
                 /\ _files' = _files
                 /\ IF ClaimPlacesOf(_files, AsPosix(path)) = {}
                    THEN found'.file = <<>>
                    ELSE /\ found'.file # <<>>
                         /\ found'.file[1].src_uri = AsPosix(path)
                         /\ \E i \in 1..Len(_files) : _files[i] = found'.file[1]]_vars

\* a remove has failed on a collection that holds a File with the src_uri of the
\* argument, after a lookup had built the index
C25_Witness ==
    /\ raised = "ValueError"
    /\ Len(_files) >= 2
    /\ _src_uris = <<>>
    /\ found.file # <<>>
    /\ \E i, j \in 1..Len(_files) : i < j /\ _files[i].src_uri = _files[j].src_uri


(***************************************************************************)
(* C24: the relative url leads back to the url.                            *)
(***************************************************************************)
\* the segments of `other` as they are written, without the last one when it
\* contains a '.'
ClaimDirectoryForm(other) ==
    LET raw == Split(other, "/")
    IN  IF ClaimHasDot(raw[Len(raw)]) THEN SubSeq(raw, 1, Len(raw) - 1) ELSE raw

\* C24: the segments of get_relative_url(url, other), put behind the directory
\* form of other (other without its last segment when that contains a '.') and
\* normalized from the root, are the normalized segments of url; and the result
\* ends with '/' exactly when url does.
C24_RoundTrip ==
    rresult # NoneStr =>
        /\ ClaimResolve(ClaimDirectoryForm(rother) \o Split(rresult, "/"), <<>>)
              = ClaimSegments(rurl)
        /\ EndsWith(rresult, <<"/">>) <=> EndsWith(rurl, <<"/">>)

\* a url with a '..' segment and a trailing slash was taken relative to a file
\* url, and the result climbs and descends
C24_Witness ==
    /\ rresult # NoneStr
    /\ EndsWith(rurl, <<"/">>)
    /\ \E i \in 1..Len(Split(rurl, "/")) : Split(rurl, "/")[i] = DOTDOT
    /\ ClaimHasDot(ClaimLastSegment(rother))
    /\ ClaimDirectoryForm(rother) # <<>>
    /\ DotDots(rresult) >= 1
    /\ Len(ClaimSegments(rurl)) >= 1

=============================================================================
